---- MODULE Spec2Model ----
(***************************************************************************)
(* Model of the JSON FortuneSheet editor: the shape rules                  *)
(* (json-sheet-rules.js), the host side that builds the init payload       *)
(* (extension.js, listed in README.md) and the webview that serializes the *)
(* grid back to text (webview-src/main.jsx).                               *)
(*                                                                         *)
(* Texts are sequences of one-character strings, so that trimming, the     *)
(* case-insensitive literal tests and Number() are computed, not assumed.  *)
(* A JSON value is a record [t, v]: t is its runtime type and v is         *)
(*   - for a primitive, the text String(value) gives (numbers in the       *)
(*     canonical decimal form JSON.parse / String() produce),              *)
(*   - for an array, the sequence of its elements,                         *)
(*   - for an object, the sequence of its entries [k, v] in key order.     *)
(* Pretty-printed JSON text is represented by the value it denotes:        *)
(* JSON.stringify(x, null, 2) is injective on these values and JSON.parse  *)
(* inverts it, so equality of texts is equality of the values.             *)
(***************************************************************************)
EXTENDS Integers, Sequences, FiniteSets, TLC

(* ---------------------------------------------------------------- text *)

Str1(a) == <<a>>
EmptyText == <<>>

IsSpace(c) == c \in {" ", "\t", "\n"}

RECURSIVE TrimLeft(_)
TrimLeft(s) == IF s # <<>> /\ IsSpace(Head(s)) THEN TrimLeft(Tail(s)) ELSE s

RECURSIVE TrimRight(_)
TrimRight(s) ==
  IF s # <<>> /\ IsSpace(s[Len(s)]) THEN TrimRight(SubSeq(s, 1, Len(s) - 1)) ELSE s

\* String.prototype.trim
Trim(s) == TrimRight(TrimLeft(s))

UpperLetters == <<"A","B","C","D","E","F","G","H","I","J","K","L","M",
                  "N","O","P","Q","R","S","T","U","V","W","X","Y","Z">>
LowerLetters == <<"a","b","c","d","e","f","g","h","i","j","k","l","m",
                  "n","o","p","q","r","s","t","u","v","w","x","y","z">>

LowerChar(c) ==
  IF \E i \in 1..Len(UpperLetters) : UpperLetters[i] = c
  THEN LowerLetters[CHOOSE i \in 1..Len(UpperLetters) : UpperLetters[i] = c]
  ELSE c

ToLower(s) == [i \in 1..Len(s) |-> LowerChar(s[i])]

TextTrue  == <<"t","r","u","e">>
TextFalse == <<"f","a","l","s","e">>
TextNull  == <<"n","u","l","l">>

\* /^true$/i, /^false$/i, /^null$/i
MatchesTrue(s)  == ToLower(s) = TextTrue
MatchesFalse(s) == ToLower(s) = TextFalse
MatchesNull(s)  == ToLower(s) = TextNull

DigitChars == {"0","1","2","3","4","5","6","7","8","9"}

AllDigits(s) == \A i \in 1..Len(s) : s[i] \in DigitChars

RECURSIVE StripLeadingZeros(_)
StripLeadingZeros(s) ==
  IF Len(s) > 1 /\ Head(s) = "0" THEN StripLeadingZeros(Tail(s)) ELSE s

RECURSIVE StripTrailingZeros(_)
StripTrailingZeros(s) ==
  IF s # <<>> /\ s[Len(s)] = "0"
  THEN StripTrailingZeros(SubSeq(s, 1, Len(s) - 1)) ELSE s

DotIndex(s) == IF \E i \in 1..Len(s) : s[i] = "."
               THEN CHOOSE i \in 1..Len(s) : s[i] = "." /\ \A j \in 1..(i-1) : s[j] # "."
               ELSE 0

\* Number(text) for the decimal literals [+-]digits[.digits], digits. and
\* .digits; every other text of the model (it holds no exponent, hex or
\* Infinity form) is NaN.  The result is [finite, text]: text is String(n).
NumberOf(s) ==
  LET signed == s # <<>> /\ Head(s) \in {"-", "+"}
      neg    == s # <<>> /\ Head(s) = "-"
      body   == IF signed THEN Tail(s) ELSE s
      d      == DotIndex(body)
      ip     == IF d = 0 THEN body ELSE SubSeq(body, 1, d - 1)
      fp     == IF d = 0 THEN <<>> ELSE SubSeq(body, d + 1, Len(body))
      wellFormed == AllDigits(ip) /\ AllDigits(fp) /\ Len(ip) + Len(fp) > 0
      ci     == StripLeadingZeros(IF ip = <<>> THEN <<"0">> ELSE ip)
      cf     == StripTrailingZeros(fp)
      mag    == IF cf = <<>> THEN ci ELSE ci \o <<".">> \o cf
      isZero == mag = <<"0">>
  IN IF wellFormed
     THEN [finite |-> TRUE, text |-> IF neg /\ ~isZero THEN <<"-">> \o mag ELSE mag]
     ELSE [finite |-> FALSE, text |-> <<"N","a","N">>]

(* --------------------------------------------------------- JSON values *)

JNum(s)  == [t |-> "number",  v |-> s]
JStr(s)  == [t |-> "string",  v |-> s]
JBool(b) == [t |-> "boolean", v |-> IF b THEN TextTrue ELSE TextFalse]
JNull    == [t |-> "null",    v |-> TextNull]
JArr(xs) == [t |-> "array",   v |-> xs]
JObj(es) == [t |-> "object",  v |-> es]
Entry(k, x) == [k |-> k, v |-> x]

\* Object.keys(obj)
ObjKeys(obj) == [i \in 1..Len(obj.v) |-> obj.v[i].k]

HasProp(obj, k) == \E i \in 1..Len(obj.v) : obj.v[i].k = k

\* obj[k] for an own property
GetProp(obj, k) == obj.v[CHOOSE i \in 1..Len(obj.v) : obj.v[i].k = k].v

\* obj[k] = x: an existing key keeps its place, a new key goes last
SetProp(obj, k, x) ==
  IF HasProp(obj, k)
  THEN JObj([i \in 1..Len(obj.v) |-> IF obj.v[i].k = k THEN Entry(k, x) ELSE obj.v[i]])
  ELSE JObj(Append(obj.v, Entry(k, x)))

RECURSIVE SelectEntries(_, _)
SelectEntries(es, k) ==
  IF es = <<>> THEN <<>>
  ELSE IF Head(es).k = k THEN SelectEntries(Tail(es), k)
       ELSE <<Head(es)>> \o SelectEntries(Tail(es), k)

\* delete obj[k]
DeleteProp(obj, k) == JObj(SelectEntries(obj.v, k))

RECURSIVE SplitOn(_, _, _)
\* String.split(sep) for a one-character separator; cur is the part being read
SplitOn(s, sep, cur) ==
  IF s = <<>> THEN <<cur>>
  ELSE IF Head(s) = sep THEN <<cur>> \o SplitOn(Tail(s), sep, <<>>)
       ELSE SplitOn(Tail(s), sep, Append(cur, Head(s)))

RECURSIVE JoinTexts(_, _)
JoinTexts(ts, sep) ==
  IF ts = <<>> THEN <<>>
  ELSE IF Len(ts) = 1 THEN Head(ts)
       ELSE Head(ts) \o sep \o JoinTexts(Tail(ts), sep)

RECURSIVE EscapeJsonChars(_)
EscapeJsonChars(s) ==
  IF s = <<>> THEN <<>>
  ELSE (IF Head(s) \in {"\"", "\\"} THEN <<"\\", Head(s)>> ELSE <<Head(s)>>)
       \o EscapeJsonChars(Tail(s))

\* JSON.stringify of a primitive
PrimJsonText(x) ==
  IF x.t = "string" THEN <<"\"">> \o EscapeJsonChars(x.v) \o <<"\"">> ELSE x.v

\* JSON.stringify of an array of primitives (no indent argument)
ArrayJsonText(a) ==
  <<"[">> \o JoinTexts([i \in 1..Len(a.v) |-> PrimJsonText(a.v[i])], <<",">>) \o <<"]">>

\* JSON.stringify(x, null, 2): the text is represented by the value it denotes
JsonStringify(x) == [t |-> "jsontext", v |-> x]

(* ------------------------------------------------- json-sheet-rules.js *)

optionalArrayWrapperProperty == <<"d","a","t","a">>
allowArrayOfPrimitives == TRUE

isPrimitive(value) == value.t \in {"null", "undefined", "string", "number", "boolean"}

isPlainObject(value) == value.t = "object"

isArrayOfPrimitives(value) ==
  value.t = "array" /\ \A i \in 1..Len(value.v) : isPrimitive(value.v[i])

Reason(msg, path) == [msg |-> msg, path |-> path]

NoMeta == JObj(<<>>)

Extracted(ok, kind, data, object, meta, dataProp, reason) ==
  [ok |-> ok, kind |-> kind, data |-> data, object |-> object, meta |-> meta,
   dataProp |-> dataProp, reason |-> reason]

\* validateAndExtract with the two root-object tests in the other order
validateAndExtractObjectsFirst(content) ==
  IF isPlainObject(content)
     /\ HasProp(content, optionalArrayWrapperProperty)
     /\ GetProp(content, optionalArrayWrapperProperty).t = "array"
  THEN Extracted(TRUE, "wrappedArray",
                 GetProp(content, optionalArrayWrapperProperty).v, NoMeta,
                 DeleteProp(content, optionalArrayWrapperProperty),
                 optionalArrayWrapperProperty, <<>>)
  ELSE IF content.t = "array"
  THEN Extracted(TRUE, "array", content.v, NoMeta, NoMeta, <<>>, <<>>)
  ELSE IF isPlainObject(content)
  THEN IF \A i \in 1..Len(content.v) : isPlainObject(content.v[i].v)
       THEN Extracted(TRUE, "objectOfObjects", <<>>, content, NoMeta, <<>>, <<>>)
       ELSE IF \A i \in 1..Len(content.v) :
                 \/ isPrimitive(content.v[i].v)
                 \/ (allowArrayOfPrimitives /\ isArrayOfPrimitives(content.v[i].v))
       THEN Extracted(TRUE, "objectKV", <<>>, content, NoMeta, <<>>, <<>>)
       ELSE Extracted(FALSE, "none", <<>>, NoMeta, NoMeta, <<>>,
                      <<Reason("Unsupported JSON root object", <<>>)>>)
  ELSE Extracted(FALSE, "none", <<>>, NoMeta, NoMeta, <<>>,
                 <<Reason("Unsupported JSON. Expected an array or an object.", <<>>)>>)

validateAndExtract(content) ==
  IF isPlainObject(content)
     /\ HasProp(content, optionalArrayWrapperProperty)
     /\ GetProp(content, optionalArrayWrapperProperty).t = "array"
  THEN Extracted(TRUE, "wrappedArray",
                 GetProp(content, optionalArrayWrapperProperty).v, NoMeta,
                 DeleteProp(content, optionalArrayWrapperProperty),
                 optionalArrayWrapperProperty, <<>>)
  ELSE IF content.t = "array"
  THEN Extracted(TRUE, "array", content.v, NoMeta, NoMeta, <<>>, <<>>)
  ELSE IF isPlainObject(content)
  THEN IF \A i \in 1..Len(content.v) :
            \/ isPrimitive(content.v[i].v)
            \/ (allowArrayOfPrimitives /\ isArrayOfPrimitives(content.v[i].v))
       THEN Extracted(TRUE, "objectKV", <<>>, content, NoMeta, <<>>, <<>>)
       ELSE IF \A i \in 1..Len(content.v) : isPlainObject(content.v[i].v)
       THEN Extracted(TRUE, "objectOfObjects", <<>>, content, NoMeta, <<>>, <<>>)
       ELSE Extracted(FALSE, "none", <<>>, NoMeta, NoMeta, <<>>,
                      <<Reason("Unsupported JSON root object", <<>>)>>)
  ELSE Extracted(FALSE, "none", <<>>, NoMeta, NoMeta, <<>>,
                 <<Reason("Unsupported JSON. Expected an array or an object.", <<>>)>>)

\* a validateAndExtract that deletes the wrapper property from the document
\* itself (meta = content) instead of from a copy
ContentAfterExtractAliased(content) ==
  IF isPlainObject(content)
     /\ HasProp(content, optionalArrayWrapperProperty)
     /\ GetProp(content, optionalArrayWrapperProperty).t = "array"
  THEN DeleteProp(content, optionalArrayWrapperProperty)
  ELSE content

\* the argument object once validateAndExtract has returned: the one write
\* of the function, delete meta[dataProp], goes to the copy { ...content }
ContentAfterExtract(content) == content

FlatResult(ok, errors, hasFlat, flat) ==
  [ok |-> ok, errors |-> errors, hasFlat |-> hasFlat, flat |-> flat]

\* the forEach body of flattenRowObject / flattenInnerObject for one field:
\* the entry it writes to `out`, or the error it pushes
FlattenField(key, fullKey, value, nestedMsg) ==
  IF isPrimitive(value)
  THEN [out |-> <<Entry(key, value)>>, err |-> <<>>]
  ELSE IF value.t = "array"
  THEN IF allowArrayOfPrimitives /\ isArrayOfPrimitives(value)
       THEN [out |-> <<Entry(key, JStr(ArrayJsonText(value)))>>, err |-> <<>>]
       ELSE [out |-> <<>>, err |-> <<Reason("Unsupported array value", fullKey)>>]
  ELSE IF isPlainObject(value)
  THEN [out |-> <<>>, err |-> <<Reason(nestedMsg, fullKey)>>]
  ELSE [out |-> <<>>, err |-> <<Reason("Unsupported value type", fullKey)>>]

RECURSIVE FlattenOut(_, _, _)
FlattenOut(es, prefix, nestedMsg) ==
  IF es = <<>> THEN <<>>
  ELSE FlattenField(Head(es).k, prefix \o Head(es).k, Head(es).v, nestedMsg).out
       \o FlattenOut(Tail(es), prefix, nestedMsg)

RECURSIVE FlattenErrorsFailFast(_, _, _)
\* the error list of a flattener that stops at the first offending field
FlattenErrorsFailFast(es, prefix, nestedMsg) ==
  IF es = <<>> THEN <<>>
  ELSE IF FlattenField(Head(es).k, prefix \o Head(es).k, Head(es).v, nestedMsg).err # <<>>
       THEN FlattenField(Head(es).k, prefix \o Head(es).k, Head(es).v, nestedMsg).err
       ELSE FlattenErrorsFailFast(Tail(es), prefix, nestedMsg)

RECURSIVE FlattenErrors(_, _, _)
FlattenErrors(es, prefix, nestedMsg) ==
  IF es = <<>> THEN <<>>
  ELSE FlattenField(Head(es).k, prefix \o Head(es).k, Head(es).v, nestedMsg).err
       \o FlattenErrors(Tail(es), prefix, nestedMsg)

flattenRowObject(row) ==
  IF ~isPlainObject(row)
  THEN FlatResult(FALSE, <<Reason("Each row must be an object.", <<>>)>>, FALSE, NoMeta)
  ELSE LET errors == FlattenErrors(row.v, <<>>, "Nested object is not supported in table rows")
       IN IF Len(errors) > 0
          THEN FlatResult(FALSE, errors, FALSE, NoMeta)
          ELSE FlatResult(TRUE, <<>>, TRUE,
                 JObj(FlattenOut(row.v, <<>>, "Nested object is not supported in table rows")))

flattenInnerObject(inner, parentKeyForError) ==
  IF ~isPlainObject(inner)
  THEN FlatResult(FALSE, <<Reason("Value must be an object.", parentKeyForError)>>,
                  FALSE, NoMeta)
  ELSE LET prefix == parentKeyForError \o <<".">>
           errors == FlattenErrors(inner.v, prefix, "Nested object too deep")
       IN IF Len(errors) > 0
          THEN FlatResult(FALSE, errors, FALSE, NoMeta)
          ELSE FlatResult(TRUE, <<>>, TRUE,
                          JObj(FlattenOut(inner.v, prefix, "Nested object too deep")))

(* ------------------------------------------- extension.js (host side) *)

DigitSeq == <<"0","1","2","3","4","5","6","7","8","9">>

RECURSIVE NatText(_)
\* String(n) for a non-negative integer
NatText(n) == IF n < 10 THEN <<DigitSeq[n + 1]>>
              ELSE NatText(n \div 10) \o <<DigitSeq[(n % 10) + 1]>>

JUndefined == [t |-> "undefined", v |-> <<>>]

\* a hole of a sparse matrix (matrix[r][c] undefined)
NoCell == [v |-> JUndefined, m |-> <<>>, hole |-> TRUE]

CellValue(raw, display) == [v |-> raw, m |-> display, hole |-> FALSE]

createCell(r, c, value) ==
  [r |-> r, c |-> c,
   v |-> IF value.t = "null" THEN CellValue(JNull, TextNull)
         ELSE IF value.t = "undefined" THEN CellValue(JStr(<<>>), <<>>)
         ELSE IF value.t = "array" THEN CellValue(JStr(ArrayJsonText(value)), ArrayJsonText(value))
         ELSE CellValue(value, value.v)]

MaxOf(S) == IF S = {} THEN 0 ELSE CHOOSE m \in S : \A x \in S : x <= m

\* the last cell written at (r, c) wins
CellAt(cells, r, c) ==
  LET hits == {i \in 1..Len(cells) : cells[i].r = r /\ cells[i].c = c}
  IN IF hits = {} THEN NoCell ELSE cells[MaxOf(hits)].v

\* rows and columns are 0-based in the cells and 1-based in the matrix
celldataToMatrixFromCells(cells) ==
  LET nRows == MaxOf({cells[i].r + 1 : i \in 1..Len(cells)})
      nCols(r) == MaxOf({cells[i].c + 1 : i \in {j \in 1..Len(cells) : cells[j].r = r}})
  IN [r \in 1..nRows |-> [c \in 1..nCols(r - 1) |-> CellAt(cells, r - 1, c - 1)]]

Sheet(celldata) == [celldata |-> celldata, data |-> celldataToMatrixFromCells(celldata)]

RECURSIVE Flatten2(_)
\* concatenation of a sequence of sequences
Flatten2(ss) == IF ss = <<>> THEN <<>> ELSE Head(ss) \o Flatten2(Tail(ss))

TextKey   == <<"k","e","y">>
TextValue == <<"v","a","l","u","e">>
TextIndex == <<"i","n","d","e","x">>

createSheetFromObject(obj) ==
  LET entries == obj.v
      cells == Flatten2([i \in 1..Len(entries) |->
                 <<createCell(i - 1, 0, JStr(entries[i].k)),
                   createCell(i - 1, 1, entries[i].v)>>])
      celldata == IF Len(entries) = 0
                  THEN <<createCell(0, 0, JStr(TextKey)), createCell(0, 1, JStr(TextValue))>>
                  ELSE cells
  IN [sheets |-> <<Sheet(celldata)>>, dataKind |-> "object"]

Contains(seq, x) == \E i \in 1..Len(seq) : seq[i] = x

RECURSIVE AddNew(_, _)
\* push every key not seen yet, in order
AddNew(headers, keys) ==
  IF keys = <<>> THEN headers
  ELSE AddNew(IF Contains(headers, Head(keys)) THEN headers ELSE Append(headers, Head(keys)),
              Tail(keys))

RECURSIVE collectHeadersFrom(_, _)
collectHeadersFrom(arr, headers) ==
  IF arr = <<>> THEN headers
  ELSE collectHeadersFrom(Tail(arr),
         IF Head(arr).t = "object" THEN AddNew(headers, ObjKeys(Head(arr))) ELSE headers)

collectHeaders(arr) ==
  LET headers == collectHeadersFrom(arr, <<>>)
  IN IF Len(headers) = 0 THEN <<TextIndex, TextValue>> ELSE headers

createSheetFromArray(arr) ==
  LET headers == collectHeaders(arr.v)
      headerCells == [c \in 1..Len(headers) |-> createCell(0, c - 1, JStr(headers[c]))]
      rowCells(i) ==
        IF arr.v[i].t = "object"
        THEN [c \in 1..Len(headers) |->
                createCell(i, c - 1,
                           IF HasProp(arr.v[i], headers[c])
                           THEN GetProp(arr.v[i], headers[c]) ELSE JUndefined)]
        ELSE <<createCell(i, 0, JNum(NatText(i - 1))), createCell(i, 1, arr.v[i])>>
  IN [sheets |-> <<Sheet(headerCells \o Flatten2([i \in 1..Len(arr.v) |-> rowCells(i)]))>>,
      dataKind |-> "array"]

createSheetsFromJson(json) ==
  IF json.t = "array" THEN createSheetFromArray(json)
  ELSE IF json.t = "object" THEN createSheetFromObject(json)
  ELSE createSheetFromObject(JObj(<<>>))

\* rows are flat objects; a key a row does not have gives the empty string
createSheetFromFlatRows(headers, rows) ==
  LET headerCells == [c \in 1..Len(headers) |-> createCell(0, c - 1, JStr(headers[c]))]
      rowCells(i) == [c \in 1..Len(headers) |->
                        createCell(i, c - 1,
                                   IF HasProp(rows[i], headers[c])
                                   THEN GetProp(rows[i], headers[c]) ELSE JStr(<<>>))]
  IN [sheets |-> <<Sheet(headerCells \o Flatten2([i \in 1..Len(rows) |-> rowCells(i)]))>>]

\* the loop of prepareObjectOfObjects over keys[from..]: it returns at the
\* first inner object that does not flatten
RECURSIVE prepareLoop(_, _, _, _)
prepareLoop(obj, i, fieldHeaders, rows) ==
  IF i > Len(obj.v)
  THEN [ok |-> TRUE, reason |-> <<>>, keys |-> ObjKeys(obj),
        fieldHeaders |-> fieldHeaders, rows |-> rows]
  ELSE LET flatRes == flattenInnerObject(obj.v[i].v, obj.v[i].k)
       IN IF ~flatRes.ok
          THEN [ok |-> FALSE, reason |-> flatRes.errors, keys |-> <<>>,
                fieldHeaders |-> <<>>, rows |-> <<>>]
          ELSE prepareLoop(obj, i + 1, AddNew(fieldHeaders, ObjKeys(flatRes.flat)),
                           Append(rows, [key |-> obj.v[i].k, fields |-> flatRes.flat]))

prepareObjectOfObjects(obj) == prepareLoop(obj, 1, <<>>, <<>>)

createSheetFromObjectOfObjects(keys, fieldHeaders, rows) ==
  LET headers == <<TextKey>> \o fieldHeaders
      headerCells == [c \in 1..Len(headers) |-> createCell(0, c - 1, JStr(headers[c]))]
      rowCells(i) ==
        <<createCell(i, 0, JStr(rows[i].key))>> \o
        [c \in 1..Len(fieldHeaders) |->
           createCell(i, c,
                      IF HasProp(rows[i].fields, fieldHeaders[c])
                      THEN GetProp(rows[i].fields, fieldHeaders[c]) ELSE JStr(<<>>))]
  IN [sheets |-> <<Sheet(headerCells \o Flatten2([i \in 1..Len(rows) |-> rowCells(i)]))>>]

EmptyTypeMap == [p \in {} |-> "string"]

NoWrapper == [present |-> FALSE, meta |-> NoMeta, dataProp |-> <<>>]
Wrapper(meta, dataProp) == [present |-> TRUE, meta |-> meta, dataProp |-> dataProp]

Payload(sheets, typeMap, dataKind, error, wrapper, text) ==
  [sheets |-> sheets, typeMap |-> typeMap, dataKind |-> dataKind, error |-> error,
   wrapper |-> wrapper, text |-> text]

Unsupported(error, text) == Payload(<<>>, EmptyTypeMap, "unsupported", error, NoWrapper, text)

RECURSIVE flattenRowsLoopSkipBad(_, _, _, _)
\* a row loop that leaves out the rows that do not flatten and keeps the rest
flattenRowsLoopSkipBad(inputRows, i, headers, flattenedRows) ==
  IF i > Len(inputRows)
  THEN [ok |-> TRUE, error |-> <<>>, headers |-> headers, flattenedRows |-> flattenedRows]
  ELSE IF ~flattenRowObject(inputRows[i]).ok
       THEN flattenRowsLoopSkipBad(inputRows, i + 1, headers, flattenedRows)
       ELSE flattenRowsLoopSkipBad(inputRows, i + 1,
                                   AddNew(headers, ObjKeys(flattenRowObject(inputRows[i]).flat)),
                                   Append(flattenedRows, flattenRowObject(inputRows[i]).flat))

\* the row loop of toSheetPayloadFromContent: it returns at the first row
\* that does not flatten
RECURSIVE flattenRowsLoop(_, _, _, _)
flattenRowsLoop(inputRows, i, headers, flattenedRows) ==
  IF i > Len(inputRows)
  THEN [ok |-> TRUE, error |-> <<>>, headers |-> headers, flattenedRows |-> flattenedRows]
  ELSE LET flatRes == flattenRowObject(inputRows[i])
       IN IF ~flatRes.ok
          THEN [ok |-> FALSE,
                error |-> <<Reason("Unsupported JSON at row", NatText(i - 1))>> \o flatRes.errors,
                headers |-> <<>>, flattenedRows |-> <<>>]
          ELSE flattenRowsLoop(inputRows, i + 1, AddNew(headers, ObjKeys(flatRes.flat)),
                               Append(flattenedRows, flatRes.flat))

\* the JSON branch (a csv or xlsx content is a record with a dataKind)
TextSheet1 == <<"S","h","e","e","t","1">>

\* content of an opened workbook: { dataKind: 'xlsx', sheets }. The sheets of
\* the model are all named Sheet1, the name the JSON builders give and the
\* name of the one sheet of the workbook a session opens
XlsxContent(sheets) == [t |-> "xlsx", v |-> sheets]

XlsxSheet(matrix) == [name |-> TextSheet1, matrix |-> matrix]

inferSimpleHint(value) ==
  IF value.t = "null" THEN "null"
  ELSE IF value.t = "number" THEN "number"
  ELSE IF value.t = "boolean" THEN "boolean"
  ELSE "string"

MatrixPlaces(matrix) ==
  UNION {{<<r, c>> : c \in 1..Len(matrix[r])} : r \in 1..Len(matrix)}

\* `${r},${c}` of a place of the matrix
PlacePath(rc) == NatText(rc[1] - 1) \o <<",">> \o NatText(rc[2] - 1)

ValueAtPath(matrix, p) ==
  LET rc == CHOOSE q \in MatrixPlaces(matrix) : PlacePath(q) = p
  IN matrix[rc[1]][rc[2]]

\* null and undefined values become '' before the cell is made
createSheetFromMatrix(matrix) ==
  [sheets |->
     <<Sheet(Flatten2([r \in 1..Len(matrix) |->
                        [c \in 1..Len(matrix[r]) |->
                           createCell(r - 1, c - 1,
                                      IF matrix[r][c].t \in {"null", "undefined"}
                                      THEN JStr(<<>>) ELSE matrix[r][c])]]))>>,
   typeMap |-> [p \in {PlacePath(rc) : rc \in MatrixPlaces(matrix)} |->
                  inferSimpleHint(ValueAtPath(matrix, p))]]

\* the xlsx branch: one widget sheet per sheet of the workbook, no hints
XlsxPayload(rawSheets) ==
  Payload([i \in 1..Len(rawSheets) |-> createSheetFromMatrix(rawSheets[i].matrix).sheets[1]],
          EmptyTypeMap, "xlsx", <<>>, NoWrapper, [t |-> "text", v |-> <<>>])

\* text.split(/\r?\n/): a carriage return just before a line feed belongs
\* to the separator
SplitLines(text) ==
  LET pieces == SplitOn(text, "\n", <<>>)
  IN [i \in 1..Len(pieces) |->
        IF i < Len(pieces) /\ pieces[i] # <<>> /\ pieces[i][Len(pieces[i])] = "\r"
        THEN SubSeq(pieces[i], 1, Len(pieces[i]) - 1)
        ELSE pieces[i]]

\* the filter of parseCsv: the last line is dropped when it is blank
DropBlankLast(lines) ==
  IF lines # <<>> /\ Trim(lines[Len(lines)]) = <<>>
  THEN SubSeq(lines, 1, Len(lines) - 1) ELSE lines

CsvCells(line) ==
  [c \in 1..Len(SplitOn(line, ",", <<>>)) |->
     JStr(Trim(SplitOn(line, ",", <<>>)[c]))]

CsvContent(matrix, text) == [t |-> "csv", matrix |-> matrix, text |-> text]

parseCsv(text) ==
  CsvContent([r \in 1..Len(DropBlankLast(SplitLines(text))) |->
                CsvCells(DropBlankLast(SplitLines(text))[r])],
             [t |-> "text", v |-> text])

\* the csv branch: the hints of createSheetFromMatrix go with the sheet
CsvPayload(made, text) == Payload(made.sheets, made.typeMap, "csv", <<>>, NoWrapper, text)

toSheetPayloadFromContent(content) ==
  LET extracted == validateAndExtract(content)
      text == JsonStringify(content)
  IN IF content.t = "csv" THEN CsvPayload(createSheetFromMatrix(content.matrix), content.text)
     ELSE IF content.t = "xlsx" THEN XlsxPayload(content.v)
     ELSE IF ~extracted.ok THEN Unsupported(extracted.reason, text)
     ELSE IF extracted.kind = "objectKV"
     THEN LET made == createSheetsFromJson(extracted.object)
          IN Payload(made.sheets, EmptyTypeMap, made.dataKind, <<>>, NoWrapper, text)
     ELSE IF extracted.kind = "objectOfObjects"
     THEN LET prep == prepareObjectOfObjects(extracted.object)
          IN IF ~prep.ok THEN Unsupported(prep.reason, text)
             ELSE Payload(createSheetFromObjectOfObjects(prep.keys, prep.fieldHeaders, prep.rows).sheets,
                          EmptyTypeMap, "objectOfObjects", <<>>, NoWrapper, text)
     ELSE LET res == flattenRowsLoop(extracted.data, 1, <<>>, <<>>)
          IN IF ~res.ok THEN Unsupported(res.error, text)
             ELSE IF extracted.kind = "wrappedArray"
             THEN Payload(createSheetFromFlatRows(res.headers, res.flattenedRows).sheets,
                          EmptyTypeMap, "wrappedArray", <<>>,
                          Wrapper(extracted.meta, extracted.dataProp), text)
             ELSE Payload(createSheetFromFlatRows(res.headers, res.flattenedRows).sheets,
                          EmptyTypeMap, "array", <<>>, NoWrapper, text)

(* ------------------------------------------- webview-src/main.jsx: pure *)

EmptySheet == [celldata |-> <<>>, data |-> <<>>]

\* sheet.data first, then sheet.celldata written over it
celldataToMatrix(sheet) ==
  LET cells == sheet.celldata
      base  == sheet.data
      nRows == MaxOf({Len(base)} \cup {cells[i].r + 1 : i \in 1..Len(cells)})
      baseLen(r) == IF r <= Len(base) THEN Len(base[r]) ELSE 0
      nCols(r) == MaxOf({baseLen(r)} \cup
                        {cells[i].c + 1 : i \in {j \in 1..Len(cells) : cells[j].r = r - 1}})
      at(r, c) == IF \E i \in 1..Len(cells) : cells[i].r = r - 1 /\ cells[i].c = c - 1
                  THEN cells[MaxOf({i \in 1..Len(cells) :
                                      cells[i].r = r - 1 /\ cells[i].c = c - 1})].v
                  ELSE IF c <= baseLen(r) THEN base[r][c] ELSE NoCell
  IN [r \in 1..nRows |-> [c \in 1..nCols(r) |-> at(r, c)]]

\* every cell of the model is a hole or an object with a display text m
getCellText(cell) == IF cell.hole THEN <<>> ELSE cell.m

\* row[c] with c 0-based; undefined past the end of the row
CellOf(row, c) == IF c >= 0 /\ c < Len(row) THEN row[c + 1] ELSE NoCell

Cast(casted, type) == [casted |-> casted, type |-> type]

\* n is Number(raw): a finite number, or the text kept as a string
NumberOrString(n, raw) ==
  IF n.finite THEN Cast(JNum(n.text), "number") ELSE Cast(JStr(raw), "string")

inferType(raw) ==
  IF raw = <<>> THEN Cast(JStr(<<>>), "string")
  ELSE IF MatchesTrue(raw) THEN Cast(JBool(TRUE), "boolean")
  ELSE IF MatchesFalse(raw) THEN Cast(JBool(FALSE), "boolean")
  ELSE IF MatchesNull(raw) THEN Cast(JNull, "null")
  ELSE NumberOrString(NumberOf(raw), raw)

\* a cast that looks at the hint before it looks for empty text
castTrimmedHintFirst(trimmed, hint) ==
  IF hint = "null" THEN Cast(JNull, "null")
  ELSE IF hint = "boolean"
  THEN IF MatchesFalse(trimmed) THEN Cast(JBool(FALSE), "boolean")
       ELSE Cast(JBool(TRUE), "boolean")
  ELSE IF trimmed = <<"\"", "\"">> \/ trimmed = <<"'", "'">> THEN Cast(JStr(<<>>), "string")
  ELSE IF trimmed = <<>> THEN Cast(JStr(<<>>), "string")
  ELSE IF hint = "none" \/ hint = "string" THEN inferType(trimmed)
  ELSE IF hint = "number" THEN NumberOrString(NumberOf(trimmed), trimmed)
  ELSE Cast(JStr(trimmed), "string")

\* castWithType after the trim; hint "none" is an absent (undefined) hint
castTrimmed(trimmed, hint) ==
  IF trimmed = <<"\"", "\"">> \/ trimmed = <<"'", "'">> THEN Cast(JStr(<<>>), "string")
  ELSE IF trimmed = <<>> THEN Cast(JStr(<<>>), "string")
  ELSE IF hint = "none" \/ hint = "string" THEN inferType(trimmed)
  ELSE IF hint = "number" THEN NumberOrString(NumberOf(trimmed), trimmed)
  ELSE IF hint = "boolean"
  THEN IF MatchesTrue(trimmed) THEN Cast(JBool(TRUE), "boolean")
       ELSE IF MatchesFalse(trimmed) THEN Cast(JBool(FALSE), "boolean")
       ELSE Cast(JBool(trimmed # <<>>), "boolean")
  ELSE IF hint = "null" THEN Cast(JNull, "null")
  ELSE Cast(JStr(trimmed), "string")

castWithType(raw, hint) == castTrimmed(Trim(raw), hint)

RECURSIVE NonEmptyOnly(_)
\* filter(Boolean) / filter((value) => value !== '') on texts
NonEmptyOnly(ts) ==
  IF ts = <<>> THEN <<>>
  ELSE (IF Head(ts) # <<>> THEN <<Head(ts)>> ELSE <<>>) \o NonEmptyOnly(Tail(ts))

RECURSIVE SetPath(_, _, _)
SetPath(obj, parts, value) ==
  IF Len(parts) = 1 THEN SetProp(obj, parts[1], value)
  ELSE SetProp(obj, Head(parts),
               SetPath(IF HasProp(obj, Head(parts))
                          /\ GetProp(obj, Head(parts)).t \in {"object", "array"}
                       THEN GetProp(obj, Head(parts)) ELSE JObj(<<>>),
                       Tail(parts), value))

SetParts(target, parts, value) ==
  IF Len(parts) = 0 THEN target ELSE SetPath(target, parts, value)

setNestedValue(target, dottedPath, value) ==
  SetParts(target, NonEmptyOnly(SplitOn(dottedPath, ".", <<>>)), value)

HintOf(typeMap, path) == IF path \in DOMAIN typeMap THEN typeMap[path] ELSE "none"

\* nextTypeMap[path] = nextTypeMap[path] || type
SetHint(typeMap, path, type) ==
  IF path \in DOMAIN typeMap THEN typeMap ELSE typeMap @@ (path :> type)

RECURSIVE CastCells(_, _)
CastCellsWith(res, items, typeMap) ==
  [typeMap |-> CastCells(Tail(items), SetHint(typeMap, Head(items).path, res.type)).typeMap,
   casts |-> <<res>> \o
             CastCells(Tail(items), SetHint(typeMap, Head(items).path, res.type)).casts]

\* casts the items [path, raw] in order, threading the type map through
CastCells(items, typeMap) ==
  IF items = <<>> THEN [typeMap |-> typeMap, casts |-> <<>>]
  ELSE CastCellsWith(castWithType(Head(items).raw, HintOf(typeMap, Head(items).path)),
                     items, typeMap)

RowPath(index, header) == <<"[">> \o NatText(index) \o <<"]", ".">> \o header
ScalarPath(index) == <<"[">> \o NatText(index) \o <<"]">>
InnerPath(key, field) == key \o <<".">> \o field
CsvPath(r, c) == NatText(r) \o <<",">> \o NatText(c)

HeaderTexts(matrix) ==
  IF Len(matrix) = 0 THEN <<>> ELSE [c \in 1..Len(matrix[1]) |-> getCellText(matrix[1][c])]

RECURSIVE SetAll(_, _, _, _)
\* obj[keys[i]] = casts[i].casted for every i that keep allows, in order
SetAll(obj, keys, casts, keep) ==
  IF keys = <<>> THEN obj
  ELSE SetAll(IF Head(keep) THEN SetProp(obj, Head(keys), Head(casts).casted) ELSE obj,
              Tail(keys), Tail(casts), Tail(keep))

RECURSIVE SetAllNested(_, _, _)
SetAllNested(obj, keys, casts) ==
  IF keys = <<>> THEN obj
  ELSE SetAllNested(setNestedValue(obj, Head(keys), Head(casts).casted), Tail(keys), Tail(casts))

RowItems(row, headers, index) ==
  [c \in 1..Len(headers) |->
     [path |-> RowPath(index, headers[c]), raw |-> getCellText(CellOf(row, c - 1))]]

\* a row counts as filled whatever its cells hold
HasValueAlways(items) == TRUE

HasValue(items) == \E c \in 1..Len(items) : items[c].raw # <<>>

\* one step of a row loop: the type map after the row and what the row emits
RowStep(typeMap, emit) == [typeMap |-> typeMap, emit |-> emit]

\* array branch, a row of bare scalars: row[1] ?? row[0]
ScalarStep(raw, res) ==
  RowStep(res.typeMap, IF raw # <<>> THEN <<res.casts[1].casted>> ELSE <<>>)

scalarRow(row, index, typeMap) ==
  ScalarStep(getCellText(IF Len(row) >= 2 /\ ~row[2].hole THEN row[2] ELSE CellOf(row, 0)),
             CastCells(<<[path |-> ScalarPath(index),
                          raw |-> getCellText(IF Len(row) >= 2 /\ ~row[2].hole
                                              THEN row[2] ELSE CellOf(row, 0))]>>, typeMap))

\* array branch, a row of header cells: only the non-empty cells are set
ArrayStep(items, res, headers) ==
  RowStep(res.typeMap,
          IF HasValue(items)
          THEN <<SetAll(JObj(<<>>), headers, res.casts,
                        [c \in 1..Len(items) |-> items[c].raw # <<>>])>>
          ELSE <<>>)

arrayRow(row, headers, index, typeMap) ==
  ArrayStep(RowItems(row, headers, index),
            CastCells(RowItems(row, headers, index), typeMap), headers)

RECURSIVE arrayRows(_, _, _, _, _, _)
arrayRowsNext(matrix, headers, scalar, r, rows, step) ==
  arrayRows(matrix, headers, scalar, r + 1, step.typeMap, rows \o step.emit)

\* the row loop of the array branch, from matrix row r (1-based; row 1 is the header)
arrayRows(matrix, headers, scalar, r, typeMap, rows) ==
  IF r > Len(matrix) THEN [typeMap |-> typeMap, rows |-> rows]
  ELSE arrayRowsNext(matrix, headers, scalar, r, rows,
                     IF scalar THEN scalarRow(matrix[r], r - 2, typeMap)
                     ELSE arrayRow(matrix[r], headers, r - 2, typeMap))

\* wrappedArray branch: every header is set with setNestedValue
WrappedStep(items, res, headers) ==
  RowStep(res.typeMap,
          IF HasValue(items) THEN <<SetAllNested(JObj(<<>>), headers, res.casts)>> ELSE <<>>)

wrappedRow(row, headers, index, typeMap) ==
  WrappedStep(RowItems(row, headers, index),
              CastCells(RowItems(row, headers, index), typeMap), headers)

RECURSIVE wrappedRows(_, _, _, _, _)
wrappedRowsNext(matrix, headers, r, rows, step) ==
  wrappedRows(matrix, headers, r + 1, step.typeMap, rows \o step.emit)

wrappedRows(matrix, headers, r, typeMap, rows) ==
  IF r > Len(matrix) THEN [typeMap |-> typeMap, rows |-> rows]
  ELSE wrappedRowsNext(matrix, headers, r, rows,
                       wrappedRow(matrix[r], headers, r - 2, typeMap))

\* Array.findIndex / indexOf, 0-based, -1 when absent
IndexOf(seq, x) ==
  IF Contains(seq, x)
  THEN (CHOOSE i \in 1..Len(seq) : seq[i] = x /\ \A j \in 1..(i - 1) : seq[j] # x) - 1
  ELSE -1

RECURSIVE FilterFields(_, _, _)
\* headers.filter((h, idx) => idx !== keyColIndex && h), idx the 0-based place of Head
FilterFields(headers, idx, keyColIndex) ==
  IF headers = <<>> THEN <<>>
  ELSE (IF idx # keyColIndex /\ Head(headers) # <<>> THEN <<Head(headers)>> ELSE <<>>)
       \o FilterFields(Tail(headers), idx + 1, keyColIndex)

\* objectOfObjects branch: a row with an empty key is skipped before any cast
ObjectStep(key, res, fieldHeaders, typeMap) ==
  IF key = <<>> THEN RowStep(typeMap, <<>>)
  ELSE RowStep(res.typeMap,
               <<Entry(key, SetAll(JObj(<<>>), fieldHeaders, res.casts,
                                   [c \in 1..Len(fieldHeaders) |-> TRUE]))>>)

ObjectItems(row, key, headers, keyColIndex, fieldHeaders) ==
  [c \in 1..Len(fieldHeaders) |->
     [path |-> InnerPath(key, fieldHeaders[c]),
      raw |-> getCellText(CellOf(row, IF keyColIndex = 0 THEN c
                                      ELSE IndexOf(headers, fieldHeaders[c])))]]

objectRowOf(row, key, headers, keyColIndex, fieldHeaders, typeMap) ==
  ObjectStep(key, CastCells(ObjectItems(row, key, headers, keyColIndex, fieldHeaders), typeMap),
             fieldHeaders, typeMap)

objectRow(row, headers, keyColIndex, fieldHeaders, typeMap) ==
  objectRowOf(row, getCellText(CellOf(row, IF keyColIndex >= 0 THEN keyColIndex ELSE 0)),
              headers, keyColIndex, fieldHeaders, typeMap)

RECURSIVE SetEntries(_, _)
SetEntries(obj, entries) ==
  IF entries = <<>> THEN obj
  ELSE SetEntries(SetProp(obj, Head(entries).k, Head(entries).v), Tail(entries))

RECURSIVE objectRows(_, _, _, _, _, _, _)
objectRowsNext(matrix, headers, keyColIndex, fieldHeaders, r, out, step) ==
  objectRows(matrix, headers, keyColIndex, fieldHeaders, r + 1, step.typeMap,
             SetEntries(out, step.emit))

objectRows(matrix, headers, keyColIndex, fieldHeaders, r, typeMap, out) ==
  IF r > Len(matrix) THEN [typeMap |-> typeMap, out |-> out]
  ELSE objectRowsNext(matrix, headers, keyColIndex, fieldHeaders, r, out,
                      objectRow(matrix[r], headers, keyColIndex, fieldHeaders, typeMap))

\* a key-value step that writes the entry of a row without a key as well
KeyValueStepKeepAll(key, res, typeMap) ==
  RowStep(res.typeMap, <<Entry(key, res.casts[1].casted)>>)

\* key-value branch (the fall-through of sheetToText)
KeyValueStep(key, res, typeMap) ==
  IF key = <<>> THEN RowStep(typeMap, <<>>)
  ELSE RowStep(res.typeMap, <<Entry(key, res.casts[1].casted)>>)

keyValueRow(row, typeMap) ==
  KeyValueStep(getCellText(CellOf(row, 0)),
               CastCells(<<[path |-> getCellText(CellOf(row, 0)),
                            raw |-> getCellText(CellOf(row, 1))]>>, typeMap),
               typeMap)

RECURSIVE keyValueRows(_, _, _, _)
keyValueRowsNext(matrix, r, result, step) ==
  keyValueRows(matrix, r + 1, step.typeMap, SetEntries(result, step.emit))

keyValueRows(matrix, r, typeMap, result) ==
  IF r > Len(matrix) THEN [typeMap |-> typeMap, result |-> result]
  ELSE keyValueRowsNext(matrix, r, result, keyValueRow(matrix[r], typeMap))

RECURSIVE DoubleQuotes(_)
\* str.replace(/"/g, '""')
DoubleQuotes(s) ==
  IF s = <<>> THEN <<>>
  ELSE (IF Head(s) = "\"" THEN <<"\"", "\"">> ELSE <<Head(s)>>) \o DoubleQuotes(Tail(s))

\* an escape that wraps the field but leaves its quotes single
escapeCsvNoDoubling(value) ==
  IF value.t \in {"null", "undefined"} THEN <<>>
  ELSE IF \E i \in 1..Len(value.v) : value.v[i] \in {"\"", ",", "\n"}
       THEN <<"\"">> \o value.v \o <<"\"">>
       ELSE value.v

escapeCsv(value) ==
  IF value.t \in {"null", "undefined"} THEN <<>>
  ELSE IF \E i \in 1..Len(value.v) : value.v[i] \in {"\"", ",", "\n"}
       THEN <<"\"">> \o DoubleQuotes(value.v) \o <<"\"">>
       ELSE value.v

CsvItems(row, r) ==
  [c \in 1..Len(row) |-> [path |-> CsvPath(r, c - 1), raw |-> getCellText(row[c])]]

CsvStep(res) ==
  RowStep(res.typeMap,
          <<JoinTexts([c \in 1..Len(res.casts) |-> escapeCsv(res.casts[c].casted)], <<",">>)>>)

csvRow(row, r, typeMap) == CsvStep(CastCells(CsvItems(row, r), typeMap))

RECURSIVE csvRows(_, _, _, _)
csvRowsNext(matrix, r, lines, step) == csvRows(matrix, r + 1, step.typeMap, lines \o step.emit)

csvRows(matrix, r, typeMap, lines) ==
  IF r > Len(matrix) THEN [typeMap |-> typeMap, lines |-> lines]
  ELSE csvRowsNext(matrix, r, lines, csvRow(matrix[r], r - 1, typeMap))

PlainText(chars) == [t |-> "text", v |-> chars]

SheetResult(textOut, nextTypeMap, matrix) ==
  [textOut |-> textOut, nextTypeMap |-> nextTypeMap, matrix |-> matrix]

ArrayBranch(matrix, res) == SheetResult(JsonStringify(JArr(res.rows)), res.typeMap, matrix)

\* a wrappedArray branch that writes the rows without the meta properties
WrappedBranchRowsOnly(matrix, res, wrapper) ==
  SheetResult(JsonStringify(SetProp(JObj(<<>>),
                                    IF wrapper.present /\ wrapper.dataProp # <<>>
                                    THEN wrapper.dataProp ELSE <<"d","a","t","a">>,
                                    JArr(res.rows))),
              res.typeMap, matrix)

\* const out = { ...meta, [dataProp]: rows }
WrappedBranch(matrix, res, wrapper) ==
  SheetResult(JsonStringify(SetProp(IF wrapper.present THEN wrapper.meta ELSE JObj(<<>>),
                                    IF wrapper.present /\ wrapper.dataProp # <<>>
                                    THEN wrapper.dataProp ELSE <<"d","a","t","a">>,
                                    JArr(res.rows))),
              res.typeMap, matrix)

ObjectBranch(matrix, res) == SheetResult(JsonStringify(res.out), res.typeMap, matrix)

CsvBranch(matrix, res) ==
  SheetResult(PlainText(JoinTexts(res.lines, <<"\n">>)), res.typeMap, matrix)

KeyValueBranch(matrix, res) == SheetResult(JsonStringify(res.result), res.typeMap, matrix)

\* xlsxSheets of the xlsx branch, for the one sheet the workbook has
XlsxSheetsOf(matrix) == <<XlsxSheet(matrix)>>

\* the names and cell texts: a text for dirty detection only
XlsxText(matrix) ==
  [t |-> "xlsxtext",
   v |-> <<[name |-> TextSheet1,
            matrix |-> [r \in 1..Len(matrix) |->
                          [c \in 1..Len(matrix[r]) |-> getCellText(matrix[r][c])]]]>>]

XlsxBranch(matrix, currentTypeMap) == SheetResult(XlsxText(matrix), currentTypeMap, matrix)

objectOfObjectsRows(matrix, headers, keyColIndex, typeMap) ==
  objectRows(matrix, headers, keyColIndex, FilterFields(headers, 0, keyColIndex), 2,
             typeMap, JObj(<<>>))

IsScalarHint(firstElementType) == firstElementType # "none" /\ firstElementType # "object"

\* sheetToText once the matrix is built
matrixToText(matrix, currentTypeMap, dataKind, wrapper) ==
  IF dataKind = "array"
  THEN ArrayBranch(matrix,
         arrayRows(matrix, NonEmptyOnly(HeaderTexts(matrix)),
                   IsScalarHint(HintOf(currentTypeMap, ScalarPath(0))), 2, currentTypeMap, <<>>))
  ELSE IF dataKind = "wrappedArray"
  THEN WrappedBranch(matrix,
         wrappedRows(matrix, NonEmptyOnly(HeaderTexts(matrix)), 2, currentTypeMap, <<>>),
         wrapper)
  ELSE IF dataKind = "objectOfObjects"
  THEN ObjectBranch(matrix,
         objectOfObjectsRows(matrix, HeaderTexts(matrix),
                             IndexOf(HeaderTexts(matrix), TextKey), currentTypeMap))
  ELSE IF dataKind = "csv"
  THEN CsvBranch(matrix, csvRows(matrix, 1, currentTypeMap, <<>>))
  ELSE IF dataKind = "xlsx"
  THEN XlsxBranch(matrix, currentTypeMap)
  ELSE KeyValueBranch(matrix, keyValueRows(matrix, 1, currentTypeMap, JObj(<<>>)))

sheetToText(sheets, currentTypeMap, dataKind, wrapper) ==
  matrixToText(celldataToMatrix(IF Len(sheets) > 0 THEN sheets[1] ELSE EmptySheet),
               currentTypeMap, dataKind, wrapper)

(* ------------------------------------------------------ the grid widget *)

\* the cell the widget keeps for a typed text
TypedCell(text) == IF text = <<>> THEN NoCell ELSE CellValue(JStr(text), text)

MatrixRow(matrix, r) == IF r >= 0 /\ r < Len(matrix) THEN matrix[r + 1] ELSE <<>>

TextAt(matrix, r, c) == getCellText(CellOf(MatrixRow(matrix, r), c))

SetCell(matrix, r, c, cell) ==
  [i \in 1..Len(matrix) |->
     IF i = r + 1
     THEN [j \in 1..Len(matrix[i]) |-> IF j = c + 1 THEN cell ELSE matrix[i][j]]
     ELSE matrix[i]]

\* the widget's sheets after the user has typed text into cell (r, c)
EditedSheets(matrix, r, c, text) ==
  <<[celldata |-> <<>>, data |-> SetCell(matrix, r, c, TypedCell(text))]>>

(* ----------------------------------------------------- input documents *)

MaxRows == 2

KeyA == <<"a">>
KeyB == <<"b">>
KeyC == <<"c">>
KeyVersion == <<"v","e","r","s","i","o","n">>

Num1 == JNum(<<"1">>)
Num2 == JNum(<<"2">>)
Str42 == JStr(<<"4","2">>)
StrTrue == JStr(TextTrue)
StrNull == JStr(TextNull)
StrPadded == JStr(<<" ","x"," ">>)
StrPlain == JStr(<<"x">>)
StrBlank == JStr(<<>>)

\* [1,2], [{}] and {"b":1}
ArrPrims == JArr(<<Num1, Num2>>)
ArrObjects == JArr(<<JObj(<<>>)>>)
Nested == JObj(<<Entry(KeyB, Num1)>>)

\* {"a": {"b": 1}, "c": [1, 2]}
MixedDoc == JObj(<<Entry(KeyA, Nested), Entry(KeyC, ArrPrims)>>)

LeafPool == {Num1, Str42, StrTrue, StrNull, StrPadded, StrPlain, StrBlank, JBool(TRUE), JNull}
FieldPool == LeafPool \cup {ArrPrims, ArrObjects, Nested}
SmallFieldPool == {Num1, Str42, StrBlank, Nested}
TinyFieldPool == {Num1, StrBlank}

\* objects over the keys "a" and "c", in either order, with values of V
ObjectsOver(V) ==
  {JObj(<<>>)}
  \cup {JObj(<<Entry(k, x)>>) : k \in {KeyA, KeyC}, x \in V}
  \cup {JObj(<<Entry(KeyA, x), Entry(KeyC, y)>>) : x \in V, y \in V}
  \cup {JObj(<<Entry(KeyC, x), Entry(KeyA, y)>>) : x \in V, y \in V}

\* sequences of at most n elements of S
SeqsUpTo(S, n) == UNION {[1..k -> S] : k \in 0..n}

RowPool == ObjectsOver(SmallFieldPool) \cup {Num1}
TinyRowPool == ObjectsOver(TinyFieldPool)

ArrayDocs ==
  {JArr(rows) : rows \in SeqsUpTo(RowPool, MaxRows)}
  \cup {JArr(<<row>>) : row \in ObjectsOver(FieldPool) \cup {ArrPrims}}

RootObjectDocs ==
  ObjectsOver(LeafPool \cup {ArrPrims, ArrObjects, Nested, JObj(<<>>),
                             JObj(<<Entry(KeyA, Str42), Entry(KeyB, Num1)>>),
                             JObj(<<Entry(KeyB, Nested)>>),
                             JObj(<<Entry(KeyB, ArrPrims)>>)})

MetaPool == {<<>>, <<Entry(KeyVersion, Num1)>>, <<Entry(KeyA, Nested)>>}

WrappedDocs ==
  {JObj(Append(meta, Entry(optionalArrayWrapperProperty, JArr(rows)))) :
     meta \in MetaPool, rows \in SeqsUpTo(TinyRowPool, MaxRows)}
  \cup {JObj(<<Entry(optionalArrayWrapperProperty, JArr(<<row>>)), Entry(KeyVersion, Num1)>>) :
          row \in RowPool}
  \cup {JObj(<<Entry(optionalArrayWrapperProperty, x)>>) : x \in {Num1, Nested}}

PrimitiveDocs == {Num1, Str42, JNull, JBool(TRUE)}

DocPool == ArrayDocs \cup RootObjectDocs \cup WrappedDocs \cup PrimitiveDocs

\* the values flattenRowObject / flattenInnerObject are applied to: the
\* elements of an array, the rows under "data" and the values of a root object
Constituents(d) ==
  IF d.t = "array" THEN {[key |-> NatText(i - 1), value |-> d.v[i]] : i \in 1..Len(d.v)}
  ELSE IF d.t = "object"
  THEN {[key |-> d.v[i].k, value |-> d.v[i].v] : i \in 1..Len(d.v)}
       \cup (IF HasProp(d, optionalArrayWrapperProperty)
                /\ GetProp(d, optionalArrayWrapperProperty).t = "array"
             THEN LET rows == GetProp(d, optionalArrayWrapperProperty).v
                  IN {[key |-> NatText(i - 1), value |-> rows[i]] : i \in 1..Len(rows)}
             ELSE {})
  ELSE {}

(* ------------------------------------------------------------ the state *)

VARIABLES
  doc,        \* the parsed JSON document of the file that is opened
  stage,      \* which pure operation was applied last
  extracted,  \* result of validateAndExtract(doc)
  flatIn,     \* the value and parent key the flattener was applied to
  flatRes,    \* result of flattenRowObject / flattenInnerObject
  payload,    \* result of toSheetPayloadFromContent(doc)
  serialized, \* result of sheetToText on the payload's unedited grid
  document,   \* the host's FortuneSheetDocument
  file,       \* the text of the file on disk
  inbox,      \* messages posted by the webview, not yet received by the host
  outbox,     \* messages posted by the host, not yet received by the webview
  state,      \* the React state of App
  refs,       \* the refs of App
  savedState, \* what vscode.setState holds
  workbook,   \* the grid widget: whether it is rendered, and its sheets
  events,     \* callbacks the widget still owes for the last edit
  edits,      \* number of cell edits made
  applied,    \* history: the last message _applyEdit was given
  established,\* history: the first hint each path had in this session
  cleared,    \* history: paths serialized as '' after a typed hint was established
  lastCall,   \* history: the last sheetToText call of the session
  windowPosts,\* history: edit messages posted in the current coalescing window
  castIn,     \* the text and hint castWithType is applied to
  castRes,    \* result of castWithType
  csvIn,      \* the csv grid and type map sheetToText is applied to
  webviews,   \* the host's _webviews map: document key -> set of tracked panels
  panels,     \* each webview panel: "new", "open" or "disposed"
  mailbox,    \* the messages posted to each panel
  reverts,    \* number of reverts made
  fresh       \* per document, the document a revert in progress has read

loadVars == <<doc, stage, extracted, flatIn, flatRes, payload, serialized>>

hostVars == <<document, file, inbox, outbox>>

viewVars == <<state, refs, savedState, workbook, events, edits>>

historyVars == <<applied, established, cleared, lastCall, windowPosts>>

cellVars == <<castIn, castRes, csvIn>>

panelVars == <<webviews, panels, mailbox, reverts, fresh>>

sessionVars == <<document, file, inbox, outbox, state, refs, savedState, workbook,
                 events, edits, applied, established, cleared, lastCall, windowPosts>>

vars == <<doc, stage, extracted, flatIn, flatRes, payload, serialized,
          document, file, inbox, outbox, state, refs, savedState, workbook,
          events, edits, applied, established, cleared, lastCall, windowPosts,
          castIn, castRes, csvIn, webviews, panels, mailbox, reverts, fresh>>

NoExtracted == Extracted(FALSE, "pending", <<>>, NoMeta, NoMeta, <<>>, <<>>)
NoFlatIn == [fn |-> "none", key |-> <<>>, value |-> JUndefined]
NoFlatRes == FlatResult(FALSE, <<>>, FALSE, NoMeta)
NoPayload == Payload(<<>>, EmptyTypeMap, "pending", <<>>, NoWrapper, JsonStringify(JUndefined))
NoSerialized == SheetResult(JsonStringify(JUndefined), EmptyTypeMap, <<>>)

\* the text of a file as read from disk; JSON.parse of it is the document
FileText(d) == [t |-> "filetext", v |-> d]

\* JSON.parse(text || '{}')
ParseJson(text) == IF text.t = "text" THEN JObj(<<>>) ELSE text.v

FortuneSheetDocument(fileType, content, initialText) ==
  [fileType |-> fileType, content |-> content, currentText |-> initialText]

\* resetFrom(otherDocument)
resetFrom(d, other) ==
  [d EXCEPT !.fileType = other.fileType, !.content = other.content,
            !.currentText = other.currentText]

\* a message of the webview; an absent text is the empty text and an absent
\* matrix or xlsxSheets the empty sequence
Message(type, text, dataKind) ==
  [type |-> type, text |-> text, dataKind |-> dataKind, matrix |-> <<>>, xlsxSheets |-> <<>>]

\* the edit or save message posted with the result of sheetToText
PostMessage(type, out, dataKind) ==
  IF dataKind = "xlsx"
  THEN [type |-> type, text |-> PlainText(<<>>), dataKind |-> "xlsx", matrix |-> <<>>,
        xlsxSheets |-> XlsxSheetsOf(out.matrix)]
  ELSE [type |-> type, text |-> out.textOut, dataKind |-> dataKind, matrix |-> out.matrix,
        xlsxSheets |-> <<>>]

NoMessage == Message("none", PlainText(<<>>), "none")

InitMessage(p) == [type |-> "init", payload |-> p]

NoCall == [valid |-> FALSE, inMap |-> EmptyTypeMap, out |-> NoSerialized]

Call(inMap, out) == [valid |-> TRUE, inMap |-> inMap, out |-> out]

\* useState / useRef initial values of App
InitialState ==
  [isInitialized |-> FALSE, error |-> <<>>, typeMap |-> EmptyTypeMap, dataKind |-> "object"]

InitialRefs ==
  [lastTextRef |-> PlainText(<<>>), ignoreChangesRef |-> TRUE, pendingFlushRef |-> FALSE,
   currentSheetsRef |-> <<>>, currentTypeMapRef |-> EmptyTypeMap,
   currentDataKindRef |-> "object", currentWrapperRef |-> NoWrapper,
   initUnlockTimerRef |-> FALSE, unlockTimeouts |-> 0]

NoSavedState == [typeMap |-> EmptyTypeMap, dataKind |-> "none"]

NoWorkbook == [mounted |-> FALSE, sheets |-> <<>>]

\* no editor is open
SessionIdle ==
  /\ document = FortuneSheetDocument("json", JUndefined, PlainText(<<>>))
  /\ file = PlainText(<<>>)
  /\ inbox = <<>>
  /\ outbox = <<>>
  /\ state = InitialState
  /\ refs = InitialRefs
  /\ savedState = NoSavedState
  /\ workbook = NoWorkbook
  /\ events = {}
  /\ edits = 0
  /\ applied = NoMessage
  /\ established = EmptyTypeMap
  /\ cleared = {}
  /\ lastCall = NoCall
  /\ windowPosts = 0

NoCastIn == [raw |-> <<>>, hint |-> "none"]

NoCsvIn == [matrix |-> <<>>, typeMap |-> EmptyTypeMap]

\* no cell is being cast
CellsIdle ==
  /\ castIn = NoCastIn
  /\ castRes = Cast(JUndefined, "none")
  /\ csvIn = NoCsvIn

\* no panel has been resolved
PanelsIdle ==
  /\ webviews = <<>>
  /\ panels = <<>>
  /\ mailbox = <<>>
  /\ reverts = 0
  /\ fresh = <<>>

(* ------------------------------------------------- the load pipeline *)

LoadInit ==
  /\ doc \in DocPool
  /\ stage = "start"
  /\ extracted = NoExtracted
  /\ flatIn = NoFlatIn
  /\ flatRes = NoFlatRes
  /\ payload = NoPayload
  /\ serialized = NoSerialized
  /\ SessionIdle
  /\ CellsIdle
  /\ PanelsIdle

Validate ==
  /\ stage = "start"
  /\ extracted' = validateAndExtract(doc)
  /\ doc' = ContentAfterExtract(doc)
  /\ stage' = "validated"
  /\ UNCHANGED <<flatIn, flatRes, payload, serialized>>
  /\ UNCHANGED <<sessionVars, cellVars, panelVars>>

FlattenRow ==
  /\ stage = "start"
  /\ \E x \in Constituents(doc) :
       /\ flatIn' = [fn |-> "flattenRowObject", key |-> <<>>, value |-> x.value]
       /\ flatRes' = flattenRowObject(x.value)
  /\ stage' = "flattened"
  /\ UNCHANGED <<doc, extracted, payload, serialized>>
  /\ UNCHANGED <<sessionVars, cellVars, panelVars>>

FlattenInner ==
  /\ stage = "start"
  /\ \E x \in Constituents(doc) :
       /\ flatIn' = [fn |-> "flattenInnerObject", key |-> x.key, value |-> x.value]
       /\ flatRes' = flattenInnerObject(x.value, x.key)
  /\ stage' = "flattened"
  /\ UNCHANGED <<doc, extracted, payload, serialized>>
  /\ UNCHANGED <<sessionVars, cellVars, panelVars>>

Load ==
  /\ stage = "validated"
  /\ payload' = toSheetPayloadFromContent(doc)
  /\ doc' = ContentAfterExtract(doc)
  /\ stage' = "loaded"
  /\ UNCHANGED <<extracted, flatIn, flatRes, serialized>>
  /\ UNCHANGED <<sessionVars, cellVars, panelVars>>

\* the init handler's baseline: sheetToText of the payload as received
Serialize ==
  /\ stage = "loaded"
  /\ payload.error = <<>>
  /\ serialized' = sheetToText(payload.sheets, payload.typeMap, payload.dataKind, payload.wrapper)
  /\ stage' = "serialized"
  /\ UNCHANGED <<doc, extracted, flatIn, flatRes, payload>>
  /\ UNCHANGED <<sessionVars, cellVars, panelVars>>

\* what the user types into one cell of the loaded grid
GridTexts == {<<>>, <<"x">>}

SerializeEditedWith(matrix) ==
  \E r \in 0..(Len(matrix) - 1) :
    \E c \in 0..(Len(matrix[r + 1]) - 1) :
      \E text \in GridTexts :
        serialized' = sheetToText(EditedSheets(matrix, r, c, text), payload.typeMap,
                                  payload.dataKind, payload.wrapper)

\* the grid is serialized after the user has typed into one of its cells
SerializeEdited ==
  /\ stage = "loaded"
  /\ payload.error = <<>>
  /\ Len(payload.sheets) > 0
  /\ SerializeEditedWith(celldataToMatrix(payload.sheets[1]))
  /\ stage' = "edited"
  /\ UNCHANGED <<doc, extracted, flatIn, flatRes, payload>>
  /\ UNCHANGED <<sessionVars, cellVars, panelVars>>

LoadNext == Validate \/ FlattenRow \/ FlattenInner \/ Load \/ Serialize \/ SerializeEdited

SpecLoad == LoadInit /\ [][LoadNext]_vars

(* ------------------------------------------------- single cells and csv *)

\* He said, "hi"
HeSaid == <<"H","e"," ","s","a","i","d",","," ","\"","h","i","\"">>

CastTexts ==
  { <<>>, <<" ">>, <<"\"", "\"">>, <<"'", "'">>, <<"4","2">>, <<" ","4","2"," ">>,
    <<"-","1",".","5","0">>, <<"4","x">>, <<"x">>, <<"0">>,
    TextTrue, <<"T","R","U","E">>, <<"F","a","l","s","e">>, <<" ","t","r","u","e">>,
    TextNull, <<"N","u","l","l">> }

\* "none" is an absent hint, "object" one that castWithType does not know
CastHints == {"none", "string", "number", "boolean", "null", "object"}

CsvTexts ==
  {<<>>, <<"a">>, <<"a", ",", "b">>, <<"x", "\n", "y">>, <<"\"">>, <<"4","2">>, TextNull, HeSaid}

CsvMatrices ==
  {<<<<x>>>> : x \in CsvTexts}
  \cup {<<<<x, y>>>> : x \in CsvTexts, y \in CsvTexts}
  \cup {<<<<x>>, <<y>>>> : x \in CsvTexts, y \in CsvTexts}

\* no hints, or the first cell known as null
CsvTypeMaps == {EmptyTypeMap, (CsvPath(0, 0) :> "null")}

\* the widget's sheet for a grid of cell texts
SheetsOfTexts(texts) ==
  <<[celldata |-> <<>>,
     data |-> [r \in 1..Len(texts) |-> [c \in 1..Len(texts[r]) |-> TypedCell(texts[r][c])]]]>>

CellsInit ==
  /\ doc = JUndefined
  /\ stage = "start"
  /\ extracted = NoExtracted
  /\ flatIn = NoFlatIn
  /\ flatRes = NoFlatRes
  /\ payload = NoPayload
  /\ serialized = NoSerialized
  /\ castIn \in [raw : CastTexts, hint : CastHints]
  /\ castRes = Cast(JUndefined, "none")
  /\ csvIn \in [matrix : CsvMatrices, typeMap : CsvTypeMaps]
  /\ SessionIdle
  /\ PanelsIdle

CastCell ==
  /\ stage = "start"
  /\ castRes' = castWithType(castIn.raw, castIn.hint)
  /\ stage' = "cast"
  /\ UNCHANGED <<doc, extracted, flatIn, flatRes, payload, serialized, castIn, csvIn>>
  /\ UNCHANGED <<sessionVars, panelVars>>

SerializeCsv ==
  /\ stage = "start"
  /\ serialized' = sheetToText(SheetsOfTexts(csvIn.matrix), csvIn.typeMap, "csv", NoWrapper)
  /\ stage' = "csv"
  /\ UNCHANGED <<doc, extracted, flatIn, flatRes, payload, castIn, castRes, csvIn>>
  /\ UNCHANGED <<sessionVars, panelVars>>

CellsNext == CastCell \/ SerializeCsv

SpecCells == CellsInit /\ [][CellsNext]_vars

(* ------------------------------------------------------------- csv files *)

MaxCsvRows == 2
MaxCsvFields == 2

\* the fields of a csv file: none holds a quote, a comma or a line break
CsvFields ==
  {<<>>, <<"a">>, <<" ", "a">>, <<"4", "2">>, <<"0", "0", "7">>, <<"1", ".", "0">>,
   <<"T", "R", "U", "E">>, TextNull}

CsvLines == {JoinTexts(fs, <<",">>) : fs \in UNION {[1..k -> CsvFields] : k \in 1..MaxCsvFields}}

\* the lines joined by a line feed or by carriage return and line feed,
\* with or without a line break after the last line
CsvFiles ==
  {JoinTexts(ls, sep) \o end :
     ls \in UNION {[1..k -> CsvLines] : k \in 1..MaxCsvRows},
     sep \in {<<"\n">>, <<"\r", "\n">>}, end \in {<<>>, <<"\n">>}}

CsvInit ==
  /\ doc \in {[t |-> "text", v |-> text] : text \in CsvFiles}
  /\ stage = "csvfile"
  /\ extracted = NoExtracted
  /\ flatIn = NoFlatIn
  /\ flatRes = NoFlatRes
  /\ payload = NoPayload
  /\ serialized = NoSerialized
  /\ SessionIdle
  /\ CellsIdle
  /\ PanelsIdle

\* openCustomDocument on a .csv file, then the payload of the init message
OpenCsv ==
  /\ stage = "csvfile"
  /\ payload' = toSheetPayloadFromContent(parseCsv(doc.v))
  /\ stage' = "csvloaded"
  /\ UNCHANGED <<doc, extracted, flatIn, flatRes, serialized>>
  /\ UNCHANGED <<sessionVars, cellVars, panelVars>>

\* sheetToText on the grid as it was loaded
SerializeLoadedCsv ==
  /\ stage = "csvloaded"
  /\ serialized' = sheetToText(payload.sheets, payload.typeMap, payload.dataKind, payload.wrapper)
  /\ stage' = "csvserialized"
  /\ UNCHANGED <<doc, extracted, flatIn, flatRes, payload>>
  /\ UNCHANGED <<sessionVars, cellVars, panelVars>>

CsvNext == OpenCsv \/ SerializeLoadedCsv

SpecCsv == CsvInit /\ [][CsvNext]_vars

(* ------------------------------------------------- the editor session *)

MaxEdits == 3
MaxQueue == 2
MaxSessionReverts == 1

\* the documents a session is opened on:
\* {"version":1,"data":[{"x":1}]}
VersionedDoc ==
  JObj(<<Entry(KeyVersion, Num1),
         Entry(optionalArrayWrapperProperty, JArr(<<JObj(<<Entry(<<"x">>, Num1)>>)>>))>>)

\* a workbook of one sheet with the row a, 1
XlsxDoc == XlsxContent(<<XlsxSheet(<<<<JStr(<<"a">>), Num1>>>>)>>)

\* {"a":1}, [{"a":1}], {"a":{"b":1}}, the versioned wrapper, the mixed object
\* and the workbook
SessionDocs ==
  { JObj(<<Entry(KeyA, Num1)>>),
    JArr(<<JObj(<<Entry(KeyA, Num1)>>)>>),
    JObj(<<Entry(KeyA, Nested)>>),
    VersionedDoc,
    MixedDoc,
    XlsxDoc }

\* what a user types into a cell
EditTexts == {<<>>, <<"4", "2">>, <<"x">>}

WorkbookMatrix == celldataToMatrix(IF Len(workbook.sheets) > 0 THEN workbook.sheets[1]
                                   ELSE EmptySheet)

\* api.getAllSheets() when the widget is rendered, else currentSheetsRef.current
LatestSheets == IF workbook.mounted THEN workbook.sheets ELSE refs.currentSheetsRef

(* history: one cell of the grid is followed through the session *)

TrackedRow(dataKind) == IF dataKind \in {"array", "wrappedArray", "objectOfObjects"} THEN 1 ELSE 0
TrackedCol(dataKind) == IF dataKind \in {"array", "wrappedArray"} THEN 0 ELSE 1

TrackedKey(matrix, dataKind) == TextAt(matrix, TrackedRow(dataKind), 0)
TrackedHeader(matrix, dataKind) == TextAt(matrix, 0, TrackedCol(dataKind))

TrackedValid(matrix, dataKind) ==
  IF dataKind \in {"array", "wrappedArray"}
  THEN Len(matrix) >= 2 /\ TrackedHeader(matrix, dataKind) # <<>>
  ELSE IF dataKind = "objectOfObjects"
  THEN /\ Len(matrix) >= 2
       /\ TextAt(matrix, 0, 0) = TextKey
       /\ TrackedHeader(matrix, dataKind) \notin {<<>>, TextKey}
       /\ TrackedKey(matrix, dataKind) # <<>>
  ELSE Len(matrix) >= 1 /\ TrackedKey(matrix, dataKind) # <<>>

TrackedPath(matrix, dataKind) ==
  IF dataKind \in {"array", "wrappedArray"}
  THEN RowPath(0, TrackedHeader(matrix, dataKind))
  ELSE IF dataKind = "objectOfObjects"
  THEN InnerPath(TrackedKey(matrix, dataKind), TrackedHeader(matrix, dataKind))
  ELSE TrackedKey(matrix, dataKind)

TrackedRaw(matrix, dataKind) == TextAt(matrix, TrackedRow(dataKind), TrackedCol(dataKind))

TypedHints == {"number", "boolean", "null"}

\* first-write-wins union of the hints seen so far with a new map
Merge(first, typeMap) ==
  [p \in DOMAIN first \cup DOMAIN typeMap |->
     IF p \in DOMAIN first THEN first[p] ELSE typeMap[p]]

ClearedBy(matrix, dataKind) ==
  IF /\ TrackedValid(matrix, dataKind)
     /\ TrackedRaw(matrix, dataKind) = <<>>
     /\ HintOf(established, TrackedPath(matrix, dataKind)) \in TypedHints
  THEN {TrackedPath(matrix, dataKind)}
  ELSE {}

\* a sheetToText call of the session is recorded
Record(inMap, out) ==
  /\ lastCall' = Call(inMap, out)
  /\ cleared' = cleared \cup ClearedBy(out.matrix, refs.currentDataKindRef)

(* the host *)

\* _applyEdit: a workbook takes the sheets of the message, or its matrix when
\* the message has no xlsxSheets; a json document takes the text
ApplyEdit(d, message) ==
  IF d.fileType = "xlsx"
  THEN IF message.xlsxSheets # <<>>
       THEN [d EXCEPT !.content = XlsxContent(message.xlsxSheets),
                      !.currentText = message.text]
       ELSE [d EXCEPT !.content = XlsxContent(<<XlsxSheet(message.matrix)>>),
                      !.currentText = message.text]
  ELSE [d EXCEPT !.currentText = message.text, !.content = ParseJson(message.text)]

\* the value aoa_to_sheet is given for a cell of the widget or a value read
\* from the workbook
NormalCell(cell) ==
  IF "hole" \in DOMAIN cell
  THEN IF cell.hole \/ cell.v.t \in {"null", "undefined"} THEN JStr(<<>>) ELSE cell.v
  ELSE IF cell.t \in {"null", "undefined"} THEN JStr(<<>>) ELSE cell

normalizeMatrixForXlsx(matrix) ==
  [r \in 1..Len(matrix) |-> [c \in 1..Len(matrix[r]) |-> NormalCell(matrix[r][c])]]

\* the workbook saveXlsxFileMulti writes
WorkbookFile(sheets) ==
  [t |-> "workbook",
   v |-> [i \in 1..Len(sheets) |->
            [name |-> sheets[i].name, matrix |-> normalizeMatrixForXlsx(sheets[i].matrix)]]]

\* saveCustomDocument
SavedFile(d) == IF d.fileType = "xlsx" THEN WorkbookFile(d.content.v) ELSE d.currentText

\* openCustomDocument on the file of the session
OpenedDocument(d) ==
  IF d.t = "xlsx" THEN FortuneSheetDocument("xlsx", d, PlainText(<<>>))
  ELSE FortuneSheetDocument("json", d, FileText(d))

OpenedFile(d) == IF d.t = "xlsx" THEN WorkbookFile(d.v) ELSE FileText(d)

Init ==
  /\ doc \in SessionDocs
  /\ stage = "session"
  /\ extracted = NoExtracted
  /\ flatIn = NoFlatIn
  /\ flatRes = NoFlatRes
  /\ payload = NoPayload
  /\ serialized = NoSerialized
  /\ document = OpenedDocument(doc)
  /\ file = OpenedFile(doc)
  /\ inbox = <<Message("ready", PlainText(<<>>), "none")>>
  /\ outbox = <<>>
  /\ state = InitialState
  /\ refs = InitialRefs
  /\ savedState = NoSavedState
  /\ workbook = NoWorkbook
  /\ events = {}
  /\ edits = 0
  /\ applied = NoMessage
  /\ established = EmptyTypeMap
  /\ cleared = {}
  /\ lastCall = NoCall
  /\ windowPosts = 0
  /\ CellsIdle
  /\ PanelsIdle

\* case 'ready': updateWebview()
HostReady ==
  /\ inbox # <<>>
  /\ Head(inbox).type = "ready"
  /\ inbox' = Tail(inbox)
  /\ outbox' = Append(outbox, InitMessage(toSheetPayloadFromContent(document.content)))
  /\ UNCHANGED <<document, file>>
  /\ UNCHANGED viewVars
  /\ UNCHANGED historyVars
  /\ UNCHANGED <<loadVars, cellVars, panelVars>>

\* case 'edit': _applyEdit
HostEdit ==
  /\ inbox # <<>>
  /\ Head(inbox).type = "edit"
  /\ inbox' = Tail(inbox)
  /\ document' = ApplyEdit(document, Head(inbox))
  /\ applied' = Head(inbox)
  /\ UNCHANGED <<file, outbox, established, cleared, lastCall, windowPosts>>
  /\ UNCHANGED viewVars
  /\ UNCHANGED <<loadVars, cellVars, panelVars>>

\* case 'save': _applyEdit, then the save command writes currentText
HostSave ==
  /\ inbox # <<>>
  /\ Head(inbox).type = "save"
  /\ inbox' = Tail(inbox)
  /\ document' = ApplyEdit(document, Head(inbox))
  /\ file' = SavedFile(ApplyEdit(document, Head(inbox)))
  /\ applied' = Head(inbox)
  /\ UNCHANGED <<outbox, established, cleared, lastCall, windowPosts>>
  /\ UNCHANGED viewVars
  /\ UNCHANGED <<loadVars, cellVars, panelVars>>

\* openCustomDocument on the file as it stands: the workbook's rows, or
\* the parsed text
ReopenedDocument(f) ==
  IF f.t = "workbook" THEN FortuneSheetDocument("xlsx", XlsxContent(f.v), PlainText(<<>>))
  ELSE FortuneSheetDocument("json", ParseJson(f), f)

\* revertCustomDocument: the file is read again, the document reset from
\* it and an init posted to the panel of the session
HostRevert ==
  /\ reverts < MaxSessionReverts
  /\ Len(outbox) < MaxQueue
  /\ document' = resetFrom(document, ReopenedDocument(file))
  /\ outbox' = Append(outbox,
                      InitMessage(toSheetPayloadFromContent(ReopenedDocument(file).content)))
  /\ reverts' = reverts + 1
  /\ UNCHANGED <<file, inbox>>
  /\ UNCHANGED viewVars
  /\ UNCHANGED historyVars
  /\ UNCHANGED <<webviews, panels, mailbox, fresh>>
  /\ UNCHANGED <<loadVars, cellVars>>

(* the webview *)

\* an init handler without its clearTimeout: the timeout of an earlier
\* init stays alive beside the new one
ArmUnlockKeepOld(live, armed) == live + 1

\* clearTimeout(initUnlockTimerRef.current) when the ref is set, then
\* setTimeout: the unlock timeouts alive in the window after an init.
\* refs.unlockTimeouts is this number, refs.initUnlockTimerRef tells
\* whether the ref holds a handle.
ArmUnlock(live, armed) == IF armed THEN live ELSE live + 1

InitWith(p, call) ==
  /\ state' = [isInitialized |-> TRUE, error |-> p.error, typeMap |-> p.typeMap,
               dataKind |-> p.dataKind]
  /\ refs' = [refs EXCEPT !.currentSheetsRef = p.sheets,
                          !.currentTypeMapRef = p.typeMap,
                          !.currentDataKindRef = p.dataKind,
                          !.currentWrapperRef = p.wrapper,
                          !.lastTextRef = IF p.error # <<>> THEN p.text ELSE call.out.textOut,
                          !.ignoreChangesRef = TRUE,
                          !.initUnlockTimerRef = TRUE,
                          !.unlockTimeouts = ArmUnlock(refs.unlockTimeouts,
                                                       refs.initUnlockTimerRef)]
  /\ savedState' = [typeMap |-> p.typeMap, dataKind |-> p.dataKind]
  /\ workbook' = IF p.error = <<>> THEN [mounted |-> TRUE, sheets |-> p.sheets] ELSE NoWorkbook
  /\ established' = p.typeMap
  /\ cleared' = {}
  /\ lastCall' = call
  /\ windowPosts' = 0

\* the 'init' branch of the message handler
ReceiveInit ==
  /\ outbox # <<>>
  /\ Head(outbox).type = "init"
  /\ outbox' = Tail(outbox)
  /\ InitWith(Head(outbox).payload,
              IF Head(outbox).payload.error # <<>> THEN NoCall
              ELSE Call(Head(outbox).payload.typeMap,
                        sheetToText(Head(outbox).payload.sheets, Head(outbox).payload.typeMap,
                                    Head(outbox).payload.dataKind, Head(outbox).payload.wrapper)))
  /\ UNCHANGED <<document, file, inbox, events, edits, applied>>
  /\ UNCHANGED <<loadVars, cellVars, panelVars>>

\* the 350 ms timer armed by init
UnlockTimer ==
  /\ refs.unlockTimeouts > 0
  /\ events = {}
  /\ refs' = [refs EXCEPT !.ignoreChangesRef = FALSE, !.initUnlockTimerRef = FALSE,
                          !.unlockTimeouts = refs.unlockTimeouts - 1]
  /\ UNCHANGED <<state, savedState, workbook, events, edits>>
  /\ UNCHANGED hostVars
  /\ UNCHANGED historyVars
  /\ UNCHANGED <<loadVars, cellVars, panelVars>>

EditAt(matrix) ==
  \E r \in 0..(Len(matrix) - 1) : \E c \in 0..(Len(matrix[r + 1]) - 1) : \E text \in EditTexts :
    /\ TextAt(matrix, r, c) # text
    /\ workbook' = [workbook EXCEPT !.sheets = EditedSheets(matrix, r, c, text)]

\* the user types into a cell of the rendered grid; the widget then owes
\* its onChange and onOp callbacks
Edit ==
  /\ workbook.mounted
  /\ events = {}
  /\ edits < MaxEdits
  /\ EditAt(WorkbookMatrix)
  /\ events' = {"change", "op"}
  /\ edits' = edits + 1
  /\ windowPosts' = IF refs.pendingFlushRef THEN windowPosts ELSE 0
  /\ UNCHANGED <<state, refs, savedState>>
  /\ UNCHANGED hostVars
  /\ UNCHANGED <<applied, established, cleared, lastCall>>
  /\ UNCHANGED <<loadVars, cellVars, panelVars>>

ChangeWith(out) ==
  /\ refs' = [refs EXCEPT !.currentSheetsRef = workbook.sheets,
                          !.currentTypeMapRef = out.nextTypeMap,
                          !.lastTextRef = out.textOut]
  /\ savedState' = [typeMap |-> out.nextTypeMap, dataKind |-> refs.currentDataKindRef]
  /\ inbox' = IF out.textOut = refs.lastTextRef THEN inbox
              ELSE Append(inbox, PostMessage("edit", out, refs.currentDataKindRef))
  /\ established' = Merge(established, out.nextTypeMap)
  /\ windowPosts' = IF out.textOut = refs.lastTextRef THEN windowPosts ELSE windowPosts + 1
  /\ Record(state.typeMap, out)

\* handleChange(nextSheets): the type map it reads is the React state
HandleChange ==
  /\ "change" \in events
  /\ events' = events \ {"change"}
  /\ IF ~state.isInitialized
     THEN UNCHANGED <<refs, savedState, inbox, established, cleared, lastCall, windowPosts>>
     ELSE IF refs.ignoreChangesRef
     THEN /\ refs' = [refs EXCEPT !.currentSheetsRef = workbook.sheets]
          /\ UNCHANGED <<savedState, inbox, established, cleared, lastCall, windowPosts>>
     ELSE /\ Len(inbox) < MaxQueue
          /\ ChangeWith(sheetToText(workbook.sheets, state.typeMap,
                                    refs.currentDataKindRef, refs.currentWrapperRef))
  /\ UNCHANGED <<document, file, outbox, state, workbook, edits, applied>>
  /\ UNCHANGED <<loadVars, cellVars, panelVars>>

\* handleOp(): arms the 300 ms flush timer
HandleOp ==
  /\ "op" \in events
  /\ events' = events \ {"op"}
  /\ refs' = IF ~state.isInitialized \/ state.error # <<>> \/ refs.ignoreChangesRef
             THEN refs
             ELSE [refs EXCEPT !.currentSheetsRef = workbook.sheets, !.pendingFlushRef = TRUE]
  /\ UNCHANGED <<state, savedState, workbook, edits>>
  /\ UNCHANGED hostVars
  /\ UNCHANGED historyVars
  /\ UNCHANGED <<loadVars, cellVars, panelVars>>

FlushWith(out) ==
  IF out.textOut # refs.lastTextRef
  THEN /\ refs' = [refs EXCEPT !.pendingFlushRef = FALSE,
                               !.lastTextRef = out.textOut,
                               !.currentTypeMapRef = out.nextTypeMap]
       /\ savedState' = [typeMap |-> out.nextTypeMap, dataKind |-> refs.currentDataKindRef]
       /\ inbox' = Append(inbox, PostMessage("edit", out, refs.currentDataKindRef))
       /\ established' = Merge(established, out.nextTypeMap)
       /\ windowPosts' = windowPosts + 1
       /\ Record(refs.currentTypeMapRef, out)
  ELSE /\ refs' = [refs EXCEPT !.pendingFlushRef = FALSE]
       /\ Record(refs.currentTypeMapRef, out)
       /\ UNCHANGED <<savedState, inbox, established, windowPosts>>

\* the flush timer fires: flushPendingChanges() of the render that armed it,
\* in which isInitialized was true and error was ''
FlushTimer ==
  /\ refs.pendingFlushRef
  /\ events = {}
  /\ IF refs.ignoreChangesRef
     THEN /\ refs' = [refs EXCEPT !.pendingFlushRef = FALSE]
          /\ UNCHANGED <<savedState, inbox, established, cleared, lastCall, windowPosts>>
     ELSE /\ Len(inbox) < MaxQueue
          /\ FlushWith(sheetToText(LatestSheets, refs.currentTypeMapRef,
                                   refs.currentDataKindRef, refs.currentWrapperRef))
  /\ UNCHANGED <<document, file, outbox, state, workbook, events, edits, applied>>
  /\ UNCHANGED <<loadVars, cellVars, panelVars>>

KeyDownWith(out) ==
  /\ inbox' = Append(inbox, PostMessage("save", out, refs.currentDataKindRef))
  /\ Record(refs.currentTypeMapRef, out)

\* handleKeyDown on Ctrl+S: the flushPendingChanges it calls is the one of
\* the first render (isInitialized false), which clears the timer and returns
KeyDown ==
  /\ events = {}
  /\ Len(inbox) < MaxQueue
  /\ refs' = [refs EXCEPT !.pendingFlushRef = FALSE]
  /\ KeyDownWith(sheetToText(LatestSheets, refs.currentTypeMapRef,
                             refs.currentDataKindRef, refs.currentWrapperRef))
  /\ UNCHANGED <<document, file, outbox, state, savedState, workbook, events, edits,
                 applied, established, windowPosts>>
  /\ UNCHANGED <<loadVars, cellVars, panelVars>>

Next ==
  \/ HostReady
  \/ HostEdit
  \/ HostSave
  \/ ReceiveInit
  \/ UnlockTimer
  \/ Edit
  \/ HandleChange
  \/ HandleOp
  \/ FlushTimer
  \/ KeyDown

Spec == Init /\ [][Next]_vars

\* a session in which the user also reverts the file: the documents are
\* {"a":1} and [{"a":1}]
LockDocs == {JObj(<<Entry(KeyA, Num1)>>), JArr(<<JObj(<<Entry(KeyA, Num1)>>)>>)}

LockInit == Init /\ doc \in LockDocs

LockNext == Next \/ HostRevert

SpecLock == LockInit /\ [][LockNext]_vars

(* ------------------------------------------------ the host and its panels *)

MaxPanels == 3
MaxReverts == 2

\* two documents, each known to the host by the key of its uri
Uris == {1, 2}

\* the document each panel is opened on: the last panel on the second
\* document, the others on the first
PanelUri == [p \in 1..MaxPanels |-> IF p = MaxPanels THEN 2 ELSE 1]

\* what a file holds: {"a":1} or [{"a":1}]
FileDocs == {JObj(<<Entry(KeyA, Num1)>>), JArr(<<JObj(<<Entry(KeyA, Num1)>>)>>)}

NoFresh == [reading |-> FALSE, document |-> FortuneSheetDocument("json", JUndefined, PlainText(<<>>))]

Fresh(d) == [reading |-> TRUE, document |-> d]

\* set.add(webviewPanel), with the set made first when the key has none
Track(map, key, panel) ==
  [k \in DOMAIN map \cup {key} |->
     IF k = key THEN (IF key \in DOMAIN map THEN map[key] ELSE {}) \cup {panel} ELSE map[k]]

\* a dispose handler that leaves the emptied set in the map
UntrackKeepKey(map, key, panel) ==
  IF key \in DOMAIN map
  THEN [k \in DOMAIN map |-> IF k = key THEN map[k] \ {panel} ELSE map[k]]
  ELSE map

\* the onDidDispose handler: the panel leaves the set, an emptied set leaves
\* the map
Untrack(map, key, panel) ==
  IF key \in DOMAIN map
  THEN [k \in {j \in DOMAIN map : j # key \/ map[j] \ {panel} # {}} |->
          IF k = key THEN map[k] \ {panel} ELSE map[k]]
  ELSE map

\* the panels _updateAllWebviews posts to
Audience(map, key) == IF key \in DOMAIN map THEN map[key] ELSE {}

\* every panel of the set is posted the same init message
Broadcast(boxes, set, message) ==
  [p \in DOMAIN boxes |-> IF p \in set THEN Append(boxes[p], message) ELSE boxes[p]]

\* the init message of a revert; the number of the revert is history
RevertMessage(content, n) ==
  [type |-> "init", payload |-> toSheetPayloadFromContent(content), revert |-> n]

HostInit ==
  /\ doc = JUndefined
  /\ stage = "host"
  /\ extracted = NoExtracted
  /\ flatIn = NoFlatIn
  /\ flatRes = NoFlatRes
  /\ payload = NoPayload
  /\ serialized = NoSerialized
  /\ file \in [Uris -> {FileText(d) : d \in FileDocs}]
  /\ document = [u \in Uris |-> OpenedDocument(file[u].v)]
  /\ inbox = <<>>
  /\ outbox = <<>>
  /\ state = InitialState
  /\ refs = InitialRefs
  /\ savedState = NoSavedState
  /\ workbook = NoWorkbook
  /\ events = {}
  /\ edits = 0
  /\ applied = NoMessage
  /\ established = EmptyTypeMap
  /\ cleared = {}
  /\ lastCall = NoCall
  /\ windowPosts = 0
  /\ CellsIdle
  /\ webviews = <<>>
  /\ panels = [p \in 1..MaxPanels |-> "new"]
  /\ mailbox = [p \in 1..MaxPanels |-> <<>>]
  /\ reverts = 0
  /\ fresh = [u \in Uris |-> NoFresh]

HostIdleVars == <<inbox, outbox, state, refs, savedState, workbook, events, edits,
                  applied, established, cleared, lastCall, windowPosts>>

\* resolveCustomEditor: the panel is tracked under the key of its document
ResolvePanel ==
  \E p \in 1..MaxPanels :
    /\ panels[p] = "new"
    /\ panels' = [panels EXCEPT ![p] = "open"]
    /\ webviews' = Track(webviews, PanelUri[p], p)
    /\ UNCHANGED <<document, file, mailbox, reverts, fresh>>
    /\ UNCHANGED <<loadVars, cellVars, HostIdleVars>>

\* the user closes an open panel; its onDidDispose handler runs
DisposePanel ==
  \E p \in 1..MaxPanels :
    /\ panels[p] = "open"
    /\ panels' = [panels EXCEPT ![p] = "disposed"]
    /\ webviews' = Untrack(webviews, PanelUri[p], p)
    /\ UNCHANGED <<document, file, mailbox, reverts, fresh>>
    /\ UNCHANGED <<loadVars, cellVars, HostIdleVars>>

\* another program rewrites a file
ExternalChange ==
  \E u \in Uris : \E d \in FileDocs :
    /\ file[u] # FileText(d)
    /\ file' = [file EXCEPT ![u] = FileText(d)]
    /\ UNCHANGED <<document, webviews, panels, mailbox, reverts, fresh>>
    /\ UNCHANGED <<loadVars, cellVars, HostIdleVars>>

\* revertCustomDocument up to its await: openCustomDocument reads the file
RevertRead ==
  \E u \in Uris :
    /\ reverts < MaxReverts
    /\ ~fresh[u].reading
    /\ fresh' = [fresh EXCEPT ![u] = Fresh(OpenedDocument(file[u].v))]
    /\ UNCHANGED <<document, file, webviews, panels, mailbox, reverts>>
    /\ UNCHANGED <<loadVars, cellVars, HostIdleVars>>

\* revertCustomDocument after the await: resetFrom(fresh), _updateAllWebviews
RevertFinish ==
  \E u \in Uris :
    /\ fresh[u].reading
    /\ document' = [document EXCEPT ![u] = resetFrom(document[u], fresh[u].document)]
    /\ mailbox' = Broadcast(mailbox, Audience(webviews, u),
                            RevertMessage(fresh[u].document.content, reverts + 1))
    /\ reverts' = reverts + 1
    /\ fresh' = [fresh EXCEPT ![u] = NoFresh]
    /\ UNCHANGED <<file, webviews, panels>>
    /\ UNCHANGED <<loadVars, cellVars, HostIdleVars>>

HostNext == ResolvePanel \/ DisposePanel \/ ExternalChange \/ RevertRead \/ RevertFinish

SpecHost == HostInit /\ [][HostNext]_vars

(* ------------------------------------------- claims on the load pipeline *)

SpecPrimitive(x) == x.t \in {"string", "number", "boolean", "null"}
SpecPrimitiveArray(x) == x.t = "array" /\ \A i \in 1..Len(x.v) : SpecPrimitive(x.v[i])
SpecCellValue(x) == SpecPrimitive(x) \/ SpecPrimitiveArray(x)

FieldsOf(x) == IF x.t = "object" THEN x.v ELSE <<>>

RECURSIVE OffendingFields(_)
\* the fields, in order, that are neither a primitive nor an array of primitives
OffendingFields(es) ==
  IF es = <<>> THEN <<>>
  ELSE (IF SpecCellValue(Head(es).v) THEN <<>> ELSE <<Head(es)>>) \o OffendingFields(Tail(es))

Flattenable(x) == x.t = "object" /\ OffendingFields(x.v) = <<>>

RECURSIVE Leaves(_, _)
\* the primitive leaves of a value, each with its path of keys and indices
Leaves(x, path) ==
  IF x.t = "object"
  THEN UNION {Leaves(x.v[i].v, Append(path, x.v[i].k)) : i \in 1..Len(x.v)}
  ELSE IF x.t = "array"
  THEN UNION {Leaves(x.v[i], Append(path, NatText(i - 1))) : i \in 1..Len(x.v)}
  ELSE {[path |-> path, value |-> x]}

NonBlank(x) == SpecPrimitive(x) /\ Trim(x.v) # <<>>

AllFields(x, P(_)) == x.t = "object" /\ \A i \in 1..Len(x.v) : P(x.v[i].v)

AllRows(rows, P(_)) == \A i \in 1..Len(rows) : AllFields(rows[i], P)

\* an accepted document whose table leaves are all non-blank primitives
NonBlankPrimitiveDoc ==
  /\ extracted.ok
  /\ \/ extracted.kind = "objectKV" /\ AllFields(doc, NonBlank)
     \/ extracted.kind \in {"array", "wrappedArray"} /\ AllRows(extracted.data, NonBlank)
     \/ extracted.kind = "objectOfObjects"
        /\ \A i \in 1..Len(doc.v) : AllFields(doc.v[i].v, NonBlank)

SerializedDoc == serialized.textOut.v

\* C1: for an accepted document whose leaves are non-blank primitives, the
\* unedited grid serializes to JSON in which every leaf of the original has
\* the same value and the same JSON type (also for "42", "true", "null" and
\* padded strings).
C1_LeavesRoundTrip ==
  (stage = "serialized" /\ NonBlankPrimitiveDoc)
    => Leaves(doc, <<>>) \subseteq Leaves(SerializedDoc, <<>>)

KeySet(x) == {x.v[i].k : i \in 1..Len(x.v)}

NoBlankValues(x) == \A l \in Leaves(x, <<>>) : Trim(l.value.v) # <<>>

\* C2: a key-value or object-of-objects document with no blank values
\* serializes, unedited, to an object with exactly the original key set at
\* every level ({} gives an object with zero keys).
C2_KeySetsRoundTrip ==
  (stage = "serialized" /\ extracted.kind \in {"objectKV", "objectOfObjects"}
     /\ NoBlankValues(doc))
    => /\ SerializedDoc.t = "object"
       /\ KeySet(SerializedDoc) = KeySet(doc)
       /\ extracted.kind = "objectOfObjects" =>
            \A i \in 1..Len(doc.v) :
               /\ GetProp(SerializedDoc, doc.v[i].k).t = "object"
               /\ KeySet(GetProp(SerializedDoc, doc.v[i].k)) = KeySet(doc.v[i].v)

RuntimeType(x) == x.t

\* the paths of the shape's leaves, in the scheme of the cast engine
LeafHints ==
  IF extracted.kind = "objectKV"
  THEN {[path |-> doc.v[i].k, type |-> RuntimeType(doc.v[i].v)] :
          i \in {j \in 1..Len(doc.v) : SpecPrimitive(doc.v[j].v)}}
  ELSE IF extracted.kind \in {"array", "wrappedArray"}
  THEN UNION {{[path |-> RowPath(r - 1, extracted.data[r].v[i].k),
                type |-> RuntimeType(extracted.data[r].v[i].v)] :
                 i \in {j \in 1..Len(extracted.data[r].v) :
                          SpecPrimitive(extracted.data[r].v[j].v)}} :
              r \in 1..Len(extracted.data)}
  ELSE UNION {{[path |-> InnerPath(doc.v[r].k, doc.v[r].v.v[i].k),
                type |-> RuntimeType(doc.v[r].v.v[i].v)] :
                 i \in {j \in 1..Len(doc.v[r].v.v) : SpecPrimitive(doc.v[r].v.v[j].v)}} :
              r \in 1..Len(doc.v)}

\* C3: the init payload of an accepted document carries a type-hint map
\* with one entry per leaf, keyed by the shape's path scheme and valued
\* with the leaf's runtime type.
C3_PayloadSeedsTypeMap ==
  (stage \in {"loaded", "serialized"} /\ payload.error = <<>>)
    => \A h \in LeafHints : HintOf(payload.typeMap, h.path) = h.type

HasWrapperArray(d) ==
  /\ d.t = "object"
  /\ \E i \in 1..Len(d.v) : d.v[i].k = <<"d","a","t","a">> /\ d.v[i].v.t = "array"

\* C8: validateAndExtract classifies by first match: wrappedArray, array,
\* objectKV (the empty object included), objectOfObjects, else the
\* 'Unsupported JSON root object' rejection for a plain object and the
\* 'Expected an array or an object' rejection for any other root.
C8_ShapePrecedence ==
  stage \in {"validated", "loaded", "serialized"} =>
    IF HasWrapperArray(doc) THEN extracted.ok /\ extracted.kind = "wrappedArray"
    ELSE IF doc.t = "array" THEN extracted.ok /\ extracted.kind = "array"
    ELSE IF doc.t = "object" /\ \A i \in 1..Len(doc.v) : SpecCellValue(doc.v[i].v)
    THEN extracted.ok /\ extracted.kind = "objectKV"
    ELSE IF doc.t = "object" /\ \A i \in 1..Len(doc.v) : doc.v[i].v.t = "object"
    THEN extracted.ok /\ extracted.kind = "objectOfObjects"
    ELSE IF doc.t = "object"
    THEN /\ ~extracted.ok
         /\ Len(extracted.reason) = 1
         /\ extracted.reason[1].msg = "Unsupported JSON root object"
    ELSE /\ ~extracted.ok
         /\ Len(extracted.reason) = 1
         /\ extracted.reason[1].msg = "Unsupported JSON. Expected an array or an object."

C8_Witness ==
  /\ stage = "validated"
  /\ doc = MixedDoc
  /\ ~extracted.ok
  /\ extracted.reason[1].msg = "Unsupported JSON root object"

\* the key path a reason must name for a field
FieldPath(k) ==
  IF flatIn.fn = "flattenInnerObject" THEN flatIn.key \o <<".">> \o k ELSE k

\* what a flat result holds for a field value
FlatValueOf(x) ==
  IF x.t = "array" THEN JStr(ArrayJsonText(x))
  ELSE x

FlattenOkPart ==
  /\ flatRes.ok <=> Flattenable(flatIn.value)
  /\ flatRes.ok =>
       /\ flatRes.hasFlat
       /\ ObjKeys(flatRes.flat) = ObjKeys(flatIn.value)
       /\ \A i \in 1..Len(flatIn.value.v) :
            flatRes.flat.v[i].v = FlatValueOf(flatIn.value.v[i].v)
  /\ ~flatRes.ok => ~flatRes.hasFlat

ReasonsPerOffendingField ==
  LET bad == OffendingFields(FieldsOf(flatIn.value))
  IN /\ Len(flatRes.errors) = Len(bad)
     /\ \A j \in 1..Len(bad) : flatRes.errors[j].path = FieldPath(bad[j].k)

\* C9 as stated: ok exactly for a plain object of primitives and arrays of
\* primitives, with the same keys in order; otherwise one reason per
\* offending field, each naming the field's key path, and no flat result.
C9_Original ==
  stage = "flattened" =>
    /\ FlattenOkPart
    /\ ~flatRes.ok => ReasonsPerOffendingField

\* C9 amended: as stated for a plain object; an input that is not a plain
\* object gives a single reason that names no field (the parent key for an
\* inner object) and no flat result.
C9_FlattenContract ==
  stage = "flattened" =>
    /\ FlattenOkPart
    /\ (~flatRes.ok /\ flatIn.value.t = "object") =>
         /\ ReasonsPerOffendingField
         /\ Len(flatRes.errors) >= 1
    /\ (~flatRes.ok /\ flatIn.value.t # "object") =>
         /\ Len(flatRes.errors) = 1
         /\ flatRes.errors[1].path =
              (IF flatIn.fn = "flattenInnerObject" THEN flatIn.key ELSE <<>>)

\* a row with two offending fields is reported with two reasons
C9_Witness ==
  /\ stage = "flattened"
  /\ flatIn.fn = "flattenInnerObject"
  /\ Len(OffendingFields(FieldsOf(flatIn.value))) = 2
  /\ Len(flatRes.errors) = 2
  /\ ~flatRes.ok

SomeRowFails ==
  /\ extracted.ok
  /\ \/ /\ extracted.kind \in {"array", "wrappedArray"}
        /\ \E i \in 1..Len(extracted.data) : ~Flattenable(extracted.data[i])
     \/ /\ extracted.kind = "objectOfObjects"
        /\ \E i \in 1..Len(doc.v) : ~Flattenable(doc.v[i].v)

\* C10: if any element of an array or wrappedArray document, or any inner
\* object of an objectOfObjects document, fails flattening, the payload has
\* no grid: sheets and type map empty, dataKind 'unsupported', a non-empty
\* error and the pretty-printed original as text.
C10_NoPartialTable ==
  (stage \in {"loaded", "serialized"} /\ SomeRowFails)
    => /\ payload.sheets = <<>>
       /\ payload.typeMap = EmptyTypeMap
       /\ payload.dataKind = "unsupported"
       /\ payload.error # <<>>
       /\ payload.text = JsonStringify(doc)

\* a two-row array whose first row is good and whose second is not
C10_Witness ==
  /\ stage = "loaded"
  /\ doc.t = "array"
  /\ Len(doc.v) = 2
  /\ Flattenable(doc.v[1])
  /\ Len(doc.v[1].v) > 0
  /\ ~Flattenable(doc.v[2])
  /\ payload.dataKind = "unsupported"
  /\ payload.sheets = <<>>

BarePrimitiveArray(d) ==
  d.t = "array" /\ Len(d.v) > 0 /\ \A i \in 1..Len(d.v) : SpecPrimitive(d.v[i])

PayloadMatrix ==
  IF Len(payload.sheets) > 0 THEN celldataToMatrix(payload.sheets[1]) ELSE <<>>

\* C11: a top-level array of bare primitives loads without error into a
\* grid with one data row per element (index in column 0, the primitive in
\* column 1), and serializing that grid gives the array of scalars again.
C11_BarePrimitiveArrayLoads ==
  (stage \in {"loaded", "serialized"} /\ BarePrimitiveArray(doc))
    => /\ payload.error = <<>>
       /\ payload.dataKind = "array"
       /\ Len(PayloadMatrix) = Len(doc.v) + 1
       /\ \A i \in 1..Len(doc.v) :
            /\ TextAt(PayloadMatrix, i, 0) = NatText(i - 1)
            /\ TextAt(PayloadMatrix, i, 1) = doc.v[i].v
       /\ stage = "serialized" => SerializedDoc = doc

\* the step is a call of validateAndExtract on the document
SpecExtractStep == stage = "start" /\ stage' = "validated"

SpecIsWrapper(d) ==
  /\ d.t = "object"
  /\ HasProp(d, optionalArrayWrapperProperty)
  /\ GetProp(d, optionalArrayWrapperProperty).t = "array"

\* the call leaves the document as it was
SpecExtractFrame ==
  SpecExtractStep
    => /\ doc' = doc
       /\ SpecIsWrapper(doc) => HasProp(doc', optionalArrayWrapperProperty)

\* the properties of the document beside the wrapper property, in order
SpecOwnMeta(d) == SelectSeq(d.v, LAMBDA e : e.k # optionalArrayWrapperProperty)

\* the result that was returned is the result a further call on the
\* document returns, and for a wrapper it holds the meta and the array
SpecExtractResult ==
  stage \in {"validated", "loaded"}
    => /\ extracted = validateAndExtract(doc)
       /\ SpecIsWrapper(doc)
            => /\ extracted.kind = "wrappedArray"
               /\ extracted.meta.v = SpecOwnMeta(doc)
               /\ extracted.data = GetProp(doc, optionalArrayWrapperProperty).v

SpecGrid == serialized.matrix

SpecGridRows == 0..(Len(SpecGrid) - 1)
SpecGridCols == 0..(Len(MatrixRow(SpecGrid, 0)) - 1)

SpecHeader(c) == TextAt(SpecGrid, 0, c)

\* every column has a header of its own
SpecHeadersIntact ==
  \A c \in SpecGridCols :
    SpecHeader(c) # <<>> /\ \A d \in SpecGridCols : d # c => SpecHeader(d) # SpecHeader(c)

\* the user has emptied the cell: it held text when loaded and holds none now
SpecClearedAt(r, c) == TextAt(PayloadMatrix, r, c) # <<>> /\ TextAt(SpecGrid, r, c) = <<>>

SpecBlankRow(r) == \A c \in SpecGridCols : TextAt(SpecGrid, r, c) = <<>>

\* the array the rows are written to
SpecRowsOut ==
  IF payload.dataKind = "array" THEN SerializedDoc
  ELSE IF SerializedDoc.t = "object" /\ HasProp(SerializedDoc, payload.wrapper.dataProp)
  THEN GetProp(SerializedDoc, payload.wrapper.dataProp)
  ELSE JUndefined

\* the place in the output array of the element of data row r
SpecElementIndex(r) == Cardinality({q \in 1..r : ~SpecBlankRow(q)})

SpecHasElement(r) ==
  SpecRowsOut.t = "array" /\ SpecElementIndex(r) \in 1..Len(SpecRowsOut.v)

SpecElement(r) == SpecRowsOut.v[SpecElementIndex(r)]

\* the object has the key with the empty string as its value
SpecHoldsEmpty(obj, key) ==
  obj.t = "object" /\ HasProp(obj, key) /\ GetProp(obj, key) = JStr(<<>>)

SpecKeyColumn == IndexOf(HeaderTexts(SpecGrid), TextKey)

\* C13: after one cell of a row or record is cleared while the row keeps a
\* non-empty key or another non-empty field, the serialized output still has
\* that cell's key, with the empty string as its value, in every JSON shape.
C13_ClearedCellKeepsKey ==
  stage = "edited" =>
    \A r \in SpecGridRows : \A c \in SpecGridCols :
      SpecClearedAt(r, c) =>
        /\ (payload.dataKind = "object" /\ c = 1 /\ TextAt(SpecGrid, r, 0) # <<>>)
             => SpecHoldsEmpty(SerializedDoc, TextAt(SpecGrid, r, 0))
        /\ (payload.dataKind \in {"array", "wrappedArray"} /\ r >= 1 /\ ~SpecBlankRow(r))
             => SpecHasElement(r) /\ SpecHoldsEmpty(SpecElement(r), SpecHeader(c))
        /\ (payload.dataKind = "objectOfObjects" /\ r >= 1 /\ c # SpecKeyColumn
              /\ TextAt(SpecGrid, r, SpecKeyColumn) # <<>>)
             => /\ HasProp(SerializedDoc, TextAt(SpecGrid, r, SpecKeyColumn))
                /\ SpecHoldsEmpty(GetProp(SerializedDoc, TextAt(SpecGrid, r, SpecKeyColumn)),
                                  SpecHeader(c))

\* what the cell (r, c) is cast to under the hints of the loaded document
SpecCastAt(r, c) ==
  castWithType(TextAt(SpecGrid, r, c),
               HintOf(payload.typeMap, RowPath(r - 1, SpecHeader(c)))).casted

SpecDataRows == 1..(Len(SpecGrid) - 1)

SpecFilledRows == {r \in SpecDataRows : ~SpecBlankRow(r)}

SpecRecordRows == IF payload.dataKind = "object" THEN SpecGridRows ELSE SpecDataRows

SpecKeyText(r) == TextAt(SpecGrid, r, 0)

\* the entry the record row r is to give under its key
SpecEntryOf(r, entry) ==
  IF payload.dataKind = "object"
  THEN entry = castWithType(TextAt(SpecGrid, r, 1),
                            HintOf(payload.typeMap, SpecKeyText(r))).casted
  ELSE /\ entry.t = "object"
       /\ KeySet(entry) = {SpecHeader(c) : c \in SpecGridCols \ {0}}
       /\ \A c \in SpecGridCols \ {0} :
            GetProp(entry, SpecHeader(c))
              = castWithType(TextAt(SpecGrid, r, c),
                             HintOf(payload.typeMap,
                                    InnerPath(SpecKeyText(r), SpecHeader(c)))).casted

\* C16: in key-value and objectOfObjects serialization the output has an
\* entry for exactly the non-empty key-column texts of the grid's rows: a row
\* with an empty key cell gives no entry, every row with a non-empty key
\* gives its entry, and the skipped row does not touch the other entries.
C16_EntriesForNonEmptyKeys ==
  (stage \in {"serialized", "edited"}
     /\ \/ payload.dataKind = "object"
        \/ payload.dataKind = "objectOfObjects" /\ SpecHeadersIntact /\ SpecKeyColumn = 0)
    => /\ SerializedDoc.t = "object"
       /\ KeySet(SerializedDoc) = {SpecKeyText(r) : r \in SpecRecordRows} \ {<<>>}
       /\ \A r \in SpecRecordRows :
            SpecKeyText(r) # <<>> => SpecEntryOf(r, GetProp(SerializedDoc, SpecKeyText(r)))

\* an object of two records: the key cell of one was cleared and the output
\* holds the other record alone
C16_Witness ==
  /\ stage = "edited"
  /\ payload.dataKind = "objectOfObjects"
  /\ Len(SpecGrid) = 3
  /\ \E r \in SpecDataRows : \E q \in SpecDataRows :
       /\ SpecClearedAt(r, 0)
       /\ SpecKeyText(q) # <<>>
       /\ KeySet(SerializedDoc) = {SpecKeyText(q)}

\* the rows below the header row have a text in every cell
SpecFullRows ==
  \A r \in SpecDataRows : \A c \in SpecGridCols : TextAt(SpecGrid, r, c) # <<>>

\* the columns whose header cell holds a name no other column has
SpecNamedCols ==
  {c \in SpecGridCols :
     SpecHeader(c) # <<>> /\ \A d \in SpecGridCols : d # c => SpecHeader(d) # SpecHeader(c)}

SpecUnderHeader(obj, r, c, hint) ==
  /\ obj.t = "object"
  /\ HasProp(obj, SpecHeader(c))
  /\ GetProp(obj, SpecHeader(c)) = castWithType(TextAt(SpecGrid, r, c), hint).casted

\* C25 (column alignment): in array, wrappedArray and objectOfObjects
\* serialization of a grid whose data rows are filled, the value written
\* under a header is the cast text of the cell in that header's own grid
\* column, also when a header cell before or between the named headers is
\* blank.
C25_ValueFromHeaderColumn ==
  (stage \in {"serialized", "edited"} /\ SpecFullRows)
    => /\ (payload.dataKind \in {"array", "wrappedArray"} /\ SpecNamedCols # {}) =>
            /\ SpecRowsOut.t = "array"
            /\ Len(SpecRowsOut.v) = Cardinality(SpecDataRows)
            /\ \A r \in SpecDataRows : \A c \in SpecNamedCols :
                 SpecUnderHeader(SpecRowsOut.v[r], r, c,
                                 HintOf(payload.typeMap, RowPath(r - 1, SpecHeader(c))))
       /\ (payload.dataKind = "objectOfObjects" /\ SpecKeyColumn = 0) =>
            /\ SerializedDoc.t = "object"
            /\ \A r \in SpecDataRows : \A c \in SpecNamedCols \ {0} :
                 (\A q \in SpecDataRows : q # r => SpecKeyText(q) # SpecKeyText(r))
                   => /\ HasProp(SerializedDoc, SpecKeyText(r))
                      /\ SpecUnderHeader(GetProp(SerializedDoc, SpecKeyText(r)), r, c,
                                         HintOf(payload.typeMap,
                                                InnerPath(SpecKeyText(r), SpecHeader(c))))

SpecLoadsAs(p, kind) == p.error = <<>> /\ p.dataKind = kind

\* C26 (reload): the text sheetToText produces for a grid of any JSON shape
\* is accepted when it is loaded again (validateAndExtract and the
\* flattener raise no error) and is classified as the shape it was
\* serialized under.
C26_OutputReloadsAsSameShape ==
  (stage \in {"serialized", "edited"} /\ payload.error = <<>>
     /\ payload.dataKind \in {"array", "wrappedArray", "objectOfObjects", "object"})
    => SpecLoadsAs(toSheetPayloadFromContent(SerializedDoc), payload.dataKind)

(* ---------------------------------------------- claims on single cells *)

SpecTrimmed == Trim(castIn.raw)

\* the text is empty or the quoted-empty marker once trimmed
SpecClearsCell == SpecTrimmed \in {<<>>, <<"\"", "\"">>, <<"'", "'">>}

SpecIsWord(word) == ToLower(SpecTrimmed) = word

\* what free-form inference is to give for a non-empty text
SpecInferred(res) ==
  IF SpecIsWord(TextTrue) THEN res.type = "boolean" /\ res.casted = JBool(TRUE)
  ELSE IF SpecIsWord(TextFalse) THEN res.type = "boolean" /\ res.casted = JBool(FALSE)
  ELSE IF SpecIsWord(TextNull) THEN res.type = "null" /\ res.casted = JNull
  ELSE IF NumberOf(SpecTrimmed).finite
  THEN res.type = "number" /\ res.casted = JNum(NumberOf(SpecTrimmed).text)
  ELSE res.type = "string" /\ res.casted = JStr(SpecTrimmed)

SpecCastRules(res, hint) ==
  IF SpecClearsCell THEN res.type = "string" /\ res.casted = JStr(<<>>)
  ELSE IF hint \in {"none", "string"} THEN SpecInferred(res)
  ELSE IF hint = "number"
  THEN IF NumberOf(SpecTrimmed).finite
       THEN res.type = "number" /\ res.casted = JNum(NumberOf(SpecTrimmed).text)
       ELSE res.type = "string" /\ res.casted = JStr(SpecTrimmed)
  ELSE IF hint = "boolean"
  THEN res.type = "boolean" /\ res.casted = JBool(~SpecIsWord(TextFalse))
  ELSE IF hint = "null" THEN res.type = "null" /\ res.casted = JNull
  ELSE TRUE

\* C12: castWithType answers for every text and every hint, absent and
\* unrecognised hints included: a text that trims to empty or to the
\* quoted-empty marker gives the empty string typed string whatever the hint;
\* no hint or hint string infers; hint number gives a number, or the text as
\* a string when it is not a finite number; hint boolean gives false for the
\* word false and true for any other text; hint null gives null; and the type
\* returned is one of string, number, boolean, null and is the runtime type
\* of the value returned.
C12_CastPriorityRules ==
  stage = "cast" =>
    /\ castRes.type \in {"string", "number", "boolean", "null"}
    /\ RuntimeType(castRes.casted) = castRes.type
    /\ SpecCastRules(castRes, castIn.hint)

\* a number hint meets a text that is no number, and a null hint meets
\* cleared text
C12_Witness ==
  /\ stage = "cast"
  /\ \/ castIn.hint = "number" /\ castIn.raw = <<"4","x">> /\ castRes.type = "string"
     \/ castIn.hint = "null" /\ castIn.raw = <<" ">> /\ castRes.casted = JStr(<<>>)

\* "He said, ""hi"""
HeSaidWritten ==
  <<"\"","H","e"," ","s","a","i","d",","," ","\"","\"","h","i","\"","\"","\"">>

\* the text of a cast value as it goes into a field: String(value), nothing
\* for null
SpecFieldText(cast) == IF cast.casted.t = "null" THEN <<>> ELSE cast.casted.v

SpecNeedsQuotes(str) == \E i \in 1..Len(str) : str[i] \in {",", "\"", "\n"}

SpecWritten(str) ==
  IF SpecNeedsQuotes(str)
  THEN <<"\"">>
       \o JoinTexts([i \in 1..Len(str) |-> IF str[i] = "\"" THEN <<"\"", "\"">> ELSE <<str[i]>>],
                    <<>>)
       \o <<"\"">>
  ELSE str

SpecCsvHint(r, c) == HintOf(csvIn.typeMap, CsvPath(r - 1, c - 1))

SpecCsvLine(r) ==
  JoinTexts([c \in 1..Len(csvIn.matrix[r]) |->
               SpecWritten(SpecFieldText(castWithType(csvIn.matrix[r][c], SpecCsvHint(r, c))))],
            <<",">>)

\* C17: in the csv text every field whose cast value holds a comma, a double
\* quote or a newline is wrapped in double quotes with each inner double quote
\* doubled, every other field is written as it is, the fields of a row are
\* joined with commas and the rows with newlines.
C17_CsvEscaping ==
  stage = "csv" =>
    serialized.textOut
      = PlainText(JoinTexts([r \in 1..Len(csvIn.matrix) |-> SpecCsvLine(r)], <<"\n">>))

\* the cell He said, "hi" has been written as "He said, ""hi"""
C17_Witness ==
  /\ stage = "csv"
  /\ csvIn.matrix = <<<<HeSaid>>>>
  /\ csvIn.typeMap = EmptyTypeMap
  /\ serialized.textOut = PlainText(HeSaidWritten)

\* the fields of a csv text, line by line, as they stand; the empty text
\* is read as no row at all or as one row of one empty field
SpecCsvFieldsOf(text) ==
  [r \in 1..Len(SplitOn(text, "\n", <<>>)) |->
     SplitOn(SplitOn(text, "\n", <<>>)[r], ",", <<>>)]

SpecSameFields(given, written) ==
  /\ Len(written) = Len(given)
  /\ \A r \in 1..Len(given) :
       /\ Len(written[r]) = Len(given[r])
       /\ \A c \in 1..Len(given[r]) : Trim(written[r][c]) = given[r][c].v

\* C27 (csv round trip): a csv file whose fields hold no quote, comma or
\* line break, parsed by parseCsv, loaded by createSheetFromMatrix and
\* serialized unedited, comes out with the same number of rows and of
\* fields in each row and with the trimmed text of every field unchanged.
C27_CsvRoundTrip ==
  stage = "csvserialized"
    => \/ parseCsv(doc.v).matrix = <<>> /\ serialized.textOut.v = <<>>
       \/ SpecSameFields(parseCsv(doc.v).matrix, SpecCsvFieldsOf(serialized.textOut.v))

(* ------------------------------------------- claims on the editor session *)

LoadedText == FileText(doc)

\* C4: once a document is opened in the unsupported-shape state, no edit
\* or save message the webview sends from that state changes the host
\* document: currentText stays the loaded text and the file keeps it.
C4_UnsupportedNeverChangesDocument ==
  (state.isInitialized /\ state.error # <<>> /\ applied.dataKind = "unsupported")
    => /\ document.currentText = LoadedText
       /\ file = LoadedText

\* C5: within a session the type-hint map (currentTypeMapRef and the state
\* persisted with setState) only grows: a path that once had a hint has the
\* same hint in every later map.
C5_HintMapOnlyGrows ==
  \A p \in DOMAIN established :
    /\ HintOf(refs.currentTypeMapRef, p) = established[p]
    /\ HintOf(savedState.typeMap, p) = established[p]

CallMatrix == lastCall.out.matrix

CallPath == TrackedPath(CallMatrix, refs.currentDataKindRef)

CallRaw == TrackedRaw(CallMatrix, refs.currentDataKindRef)

CallTracked == lastCall.valid /\ TrackedValid(CallMatrix, refs.currentDataKindRef)

\* C6: sheetToText establishes a hint for a path only when the cell at that
\* path holds non-empty text: a call that finds the cell empty and the path
\* without a hint returns a map in which the path still has no hint.
C6_HintOnlyFromNonEmptyCell ==
  (CallTracked /\ CallRaw = <<>> /\ HintOf(lastCall.inMap, CallPath) = "none")
    => HintOf(lastCall.out.nextTypeMap, CallPath) = "none"

LiteralOf(raw, type) ==
  IF type = "number" THEN raw # <<>> /\ NumberOf(raw).finite
  ELSE IF type = "boolean" THEN MatchesTrue(raw) \/ MatchesFalse(raw)
  ELSE type = "null" /\ MatchesNull(raw)

\* the value the serialized document holds at the followed path
CallValue ==
  LET out == lastCall.out.textOut.v
      kind == refs.currentDataKindRef
      key == TrackedKey(CallMatrix, kind)
      header == TrackedHeader(CallMatrix, kind)
  IN IF kind = "array" THEN GetProp(out.v[1], header)
     ELSE IF kind = "wrappedArray"
     THEN GetProp(GetProp(out, optionalArrayWrapperProperty).v[1], header)
     ELSE IF kind = "objectOfObjects" THEN GetProp(GetProp(out, key), header)
     ELSE GetProp(out, key)

\* C7 (sticky-hint law): for a path whose hint was established as number,
\* boolean or null and whose cell was then serialized as '', a later
\* serialization that finds a literal of that type in the cell yields a
\* value of that type, and the hint in force for the cast is the
\* established one.
C7_StickyHint ==
  (CallTracked /\ CallPath \in cleared /\ LiteralOf(CallRaw, established[CallPath]))
    => /\ CallValue.t = established[CallPath]
       /\ HintOf(lastCall.inMap, CallPath) = established[CallPath]

CallOut == lastCall.out.textOut.v

\* the properties of the opened document beside the wrapper property
SpecMeta == SelectSeq(doc.v, LAMBDA e : e.k # optionalArrayWrapperProperty)

\* the grid the opened document is loaded into
SpecLoadedMatrix == celldataToMatrix(toSheetPayloadFromContent(doc).sheets[1])

\* C15: in a wrappedArray session every serialization, after any edits,
\* gives an object that holds each meta property of the opened document with
\* its value unchanged and nothing else beside the row array under the
\* original wrapper property name; the unedited grid of
\* {"version":1,"data":[{"x":1}]} gives that document again.
C15_WrapperMetaKept ==
  (lastCall.valid /\ refs.currentDataKindRef = "wrappedArray")
    => /\ CallOut.t = "object"
       /\ KeySet(CallOut) = KeySet(doc)
       /\ \A i \in 1..Len(SpecMeta) : GetProp(CallOut, SpecMeta[i].k) = SpecMeta[i].v
       /\ GetProp(CallOut, optionalArrayWrapperProperty).t = "array"
       /\ (doc = VersionedDoc /\ CallMatrix = SpecLoadedMatrix) => CallOut = doc
       /\ \A i \in 1..Len(inbox) :
            inbox[i].dataKind = "wrappedArray" =>
              \A j \in 1..Len(SpecMeta) :
                /\ inbox[i].text.v.t = "object"
                /\ HasProp(inbox[i].text.v, SpecMeta[j].k)
                /\ GetProp(inbox[i].text.v, SpecMeta[j].k) = SpecMeta[j].v

\* the versioned document after an edit of its one data cell: the version is
\* still there
C15_Witness ==
  /\ lastCall.valid
  /\ refs.currentDataKindRef = "wrappedArray"
  /\ doc = VersionedDoc
  /\ TextAt(CallMatrix, 1, 0) = <<"4", "2">>
  /\ GetProp(CallOut, KeyVersion) = Num1
  /\ Len(GetProp(CallOut, optionalArrayWrapperProperty).v) = 1

\* the values a workbook content holds, sheet by sheet
XlsxValues(content) ==
  [i \in 1..Len(content.v) |->
     [name |-> content.v[i].name, matrix |-> normalizeMatrixForXlsx(content.v[i].matrix)]]

\* C18: an xlsx document is read-only: whatever edit and save messages the
\* webview sends, the content the host holds keeps the sheets and values of
\* the opened workbook and the workbook file is never written with anything
\* else.
C18_XlsxReadOnly ==
  document.fileType = "xlsx"
    => /\ XlsxValues(document.content) = XlsxValues(doc)
       /\ file = OpenedFile(doc)

(* ---------------------------------------------- claims on the host's panels *)

\* the panel is resolved and not disposed, on the document of the key
SpecTracked(p, u) == panels[p] = "open" /\ PanelUri[p] = u

\* the revert of document u ends in this step
SpecRevertEnds(u) == fresh[u].reading /\ ~fresh'[u].reading /\ reverts' = reverts + 1

SpecRevertInit(u) ==
  [type |-> "init", payload |-> toSheetPayloadFromContent(fresh[u].document.content),
   revert |-> reverts']

SpecRevertPosts ==
  \A u \in Uris :
    SpecRevertEnds(u) =>
      \A p \in 1..MaxPanels :
        mailbox'[p] = IF SpecTracked(p, u) THEN Append(mailbox[p], SpecRevertInit(u))
                      ELSE mailbox[p]

SpecNoEmptyEntry == \A k \in DOMAIN webviews : webviews[k] # {}

\* C20: a revert sends one init message, built from the content it has just
\* read, to every panel that is resolved and not disposed on that document and
\* nothing to any other panel, a disposed one included; and the tracking map
\* never holds a key whose set of panels is empty.
C20_RevertBroadcast == [][SpecRevertPosts]_vars /\ []SpecNoEmptyEntry

\* after a revert of the first document: its open panel holds the init of
\* that revert, its disposed panel holds nothing, and the map has the one
\* open panel under the key
C20_Witness ==
  /\ stage = "host"
  /\ reverts >= 1
  /\ panels[1] = "open"
  /\ panels[2] = "disposed"
  /\ Len(mailbox[1]) = 1
  /\ mailbox[1][1].type = "init"
  /\ mailbox[2] = <<>>
  /\ 1 \in DOMAIN webviews
  /\ webviews[1] = {1}

\* nothing is under way: no timer is pending, the widget owes no callback
\* and no message is in flight
SpecQuiet ==
  /\ events = {}
  /\ ~refs.pendingFlushRef
  /\ ~refs.initUnlockTimerRef
  /\ inbox = <<>>
  /\ outbox = <<>>

\* the serialization of the grid the widget holds
SpecGridText ==
  sheetToText(workbook.sheets, refs.currentTypeMapRef, refs.currentDataKindRef,
              refs.currentWrapperRef).textOut

\* C22: once the session has been initialized on a supported document and
\* no timer is pending and no message is in flight, the text the host holds
\* for the document is the serialization of the grid the widget reported
\* last: no edit is lost or left unreported. The two texts are compared by
\* the document they hold, so that the layout of the opened file does not
\* count as a difference.
C22_HostTextFollowsGrid ==
  (SpecQuiet /\ state.isInitialized /\ state.error = <<>> /\ workbook.mounted
     /\ document.fileType = "json")
    => ParseJson(document.currentText) = ParseJson(SpecGridText)

\* C23 (init lock): while an unlock timeout armed by an init is alive, no
\* step of the webview adds an edit message to the host's inbox, whatever
\* grid-change, op or flush-timer event it handles; at most one unlock
\* timeout is alive at any time, it is the one the ref holds, and the lock
\* is held as long as it is alive, so that an init received under the lock
\* restarts it and no earlier timeout releases it.
SpecEditCount(queue) == Cardinality({i \in 1..Len(queue) : queue[i].type = "edit"})

SpecNoEditUnderLock ==
  refs.unlockTimeouts > 0 => SpecEditCount(inbox') <= SpecEditCount(inbox)

SpecOneUnlockTimeout ==
  /\ refs.unlockTimeouts <= 1
  /\ (refs.unlockTimeouts = 1) <=> refs.initUnlockTimerRef
  /\ refs.unlockTimeouts > 0 => refs.ignoreChangesRef

C23_InitLockHolds == [][SpecNoEditUnderLock]_vars /\ []SpecOneUnlockTimeout

\* both inits, the one answering 'ready' and the one of the revert, have
\* been received, the lock is held, and the user has typed without any
\* message having reached the host
C23_Witness ==
  /\ reverts = 1
  /\ outbox = <<>>
  /\ inbox = <<>>
  /\ applied = NoMessage
  /\ state.isInitialized
  /\ refs.initUnlockTimerRef
  /\ ~refs.pendingFlushRef
  /\ edits >= 1
  /\ events = {}

\* C24 (nothing before the first init): while the webview has received no
\* init message it has posted no edit and no save message, and the host
\* has replaced neither the document's text nor the file.
C24_NothingPostedBeforeInit ==
  ~state.isInitialized
    => /\ \A i \in 1..Len(inbox) : inbox[i].type \notin {"edit", "save"}
       /\ applied = NoMessage
       /\ document = OpenedDocument(doc)
       /\ file = OpenedFile(doc)

\* C19 (edit coalescing): a burst of edits inside one coalescing window,
\* from the first edit made with no flush timer pending until that timer
\* fires, results in at most one edit message to the host.
C19_OneEditMessagePerWindow == windowPosts <= 1

====
